---- MODULE Spec2Model ----
(***************************************************************************)
(* OpenIn: a browser extension that recognises repository and package      *)
(* identifiers and redirects to the matching platform page.                *)
(*                                                                         *)
(* Texts are sequences of one-character strings, so that the regular       *)
(* expressions, substring tests and template substitution of the source    *)
(* are computed character by character.  Times are in milliseconds.        *)
(***************************************************************************)
EXTENDS Integers, Sequences, FiniteSets, TLC

VARIABLES
  DEFAULT_PLATFORM,  \* background.js:6, the in-memory default platform
  now,               \* Date.now()
  recentJumps,       \* background.js:255, the Map from jump key to timestamp
  timers,            \* the pending setTimeout callbacks of recordJump
  sync,              \* chrome.storage.sync, the settings
  changes,           \* storage.onChanged events not yet delivered
  saved,             \* the number of times the options page saved a setting
  local,             \* chrome.storage.local: search_jump_<tab>, repo_source_<tab>
  procs,             \* handlers suspended at an await, messages in flight
  page,              \* per tab: what the search hint script of its page did
  events,            \* the number of user and browser events so far
  navs,              \* history: the tab navigations issued, in order
  lastRecord,        \* history: per jump key, the time of its last recordJump
  asked,             \* history: the last call of isRecentJump and its result
  call,              \* history: the last call of a resolver function
  built              \* history: per argument tuple, the URLs buildRepoUrl returned

guardVars == <<now, recentJumps, timers>>
settingVars == <<sync, changes, saved>>
browserVars == <<local, procs, page, events>>
historyVars == <<navs, lastRecord, asked, call, built>>

vars ==
  <<DEFAULT_PLATFORM, now, recentJumps, timers, sync, changes, saved, local,
    procs, page, events, navs, lastRecord, asked, call, built>>

\* ------------------------------------------------------------------------
\* JavaScript values and string primitives
\* ------------------------------------------------------------------------

\* null where a platform key is expected, where a text is expected and
\* where a target object is expected
NullKey == "null"
NullText == <<"null">>
NullTarget == [null |-> TRUE]

\* no resolver function has been called
NoCall == [fn |-> "none"]

LowerLetters ==
  <<"a","b","c","d","e","f","g","h","i","j","k","l","m",
    "n","o","p","q","r","s","t","u","v","w","x","y","z">>
UpperLetters ==
  <<"A","B","C","D","E","F","G","H","I","J","K","L","M",
    "N","O","P","Q","R","S","T","U","V","W","X","Y","Z">>
Digits == {"0","1","2","3","4","5","6","7","8","9"}

Range(s) == {s[i] : i \in DOMAIN s}

\* [a-zA-Z0-9]
AlnumChars == Range(LowerLetters) \cup Range(UpperLetters) \cup Digits
\* [a-zA-Z0-9-]
OwnerChars == AlnumChars \cup {"-"}
\* [\w.-]
RepoChars == AlnumChars \cup {"_", ".", "-"}
\* [a-zA-Z0-9.-]
DomainChars == AlnumChars \cup {".", "-"}
\* \s
WhiteSpace == {" ", "\t", "\n", "\r"}
\* what . does not match
LineTerminators == {"\n", "\r"}

\* String.prototype.toLowerCase
ToLowerChar(c) ==
  IF \E i \in DOMAIN UpperLetters : UpperLetters[i] = c
    THEN LowerLetters[CHOOSE i \in DOMAIN UpperLetters : UpperLetters[i] = c]
    ELSE c
ToLower(s) == [i \in DOMAIN s |-> ToLowerChar(s[i])]

\* s.slice(i) with a 1-based start
Drop(s, n) == SubSeq(s, n + 1, Len(s))
Take(s, n) == SubSeq(s, 1, n)

StartsWith(s, p) == Len(p) <= Len(s) /\ Take(s, Len(p)) = p

\* the 1-based positions at which t occurs in s
Occurrences(s, t) ==
  {i \in 1..(Len(s) - Len(t) + 1) : SubSeq(s, i, i + Len(t) - 1) = t}

\* String.prototype.includes
Includes(s, t) == Occurrences(s, t) # {}

Min(S) == CHOOSE x \in S : \A y \in S : x <= y
Max(S) == CHOOSE x \in S : \A y \in S : x >= y

AllWhite(s) == \A i \in DOMAIN s : s[i] \in WhiteSpace

\* the position of the first c in s, or 0
IndexOfChar(s, c) ==
  IF \E i \in DOMAIN s : s[i] = c
    THEN Min({i \in DOMAIN s : s[i] = c})
    ELSE 0

\* String.prototype.trim
TrimLeft(s) ==
  IF AllWhite(s) THEN <<>>
  ELSE Drop(s, Min({i \in DOMAIN s : s[i] \notin WhiteSpace}) - 1)
TrimRight(s) ==
  IF AllWhite(s) THEN <<>>
  ELSE Take(s, Max({i \in DOMAIN s : s[i] \notin WhiteSpace}))
Trim(s) == TrimRight(TrimLeft(s))

\* the length of the longest prefix of s without white space
WordLen(s) ==
  IF \E i \in DOMAIN s : s[i] \in WhiteSpace
    THEN Min({i \in DOMAIN s : s[i] \in WhiteSpace}) - 1
    ELSE Len(s)

\* s.split(/\s+/) of a trimmed, non-empty text
RECURSIVE SplitSpaces(_)
SplitSpaces(s) ==
  IF s = <<>> THEN <<>>
  ELSE LET n == WordLen(s)
       IN <<Take(s, n)>> \o SplitSpaces(TrimLeft(Drop(s, n)))

\* parts.join(' ')
RECURSIVE JoinSpaces(_)
JoinSpaces(parts) ==
  IF parts = <<>> THEN <<>>
  ELSE IF Len(parts) = 1 THEN parts[1]
  ELSE parts[1] \o <<" ">> \o JoinSpaces(Tail(parts))

\* the replacement text of String.prototype.replace with a string pattern:
\* $$ is a dollar, $& the matched text, $` the text before the match and
\* $' the text after it; any other character stands for itself
RECURSIVE Substitution(_, _, _, _)
Substitution(rep, matched, before, after) ==
  LET i == IndexOfChar(rep, "$")
  IN IF i = 0 THEN rep
     ELSE IF i < Len(rep) /\ rep[i + 1] \in {"$", "&", "`", "'"}
       THEN Take(rep, i - 1)
            \o (CASE rep[i + 1] = "$" -> <<"$">>
                  [] rep[i + 1] = "&" -> matched
                  [] rep[i + 1] = "`" -> before
                  [] rep[i + 1] = "'" -> after)
            \o Substitution(Drop(rep, i + 1), matched, before, after)
       ELSE Take(rep, i) \o Substitution(Drop(rep, i), matched, before, after)

\* String.prototype.replace(pattern, replacement) with a string pattern:
\* the first occurrence only
Replace(s, pat, rep) ==
  IF ~Includes(s, pat) THEN s
  ELSE LET i == Min(Occurrences(s, pat))
           before == Take(s, i - 1)
           after == Drop(s, i + Len(pat) - 1)
       IN before \o Substitution(rep, pat, before, after) \o after

\* ------------------------------------------------------------------------
\* Platform table
\* ------------------------------------------------------------------------

\* the keys of PLATFORMS in the order of Object.entries
PlatformKeys ==
  << "github", "gitlab", "bitbucket", "gitee", "npm", "docker", "pypi", "rubygems", "packagist", "crates", "nuget", "maven", "zerocat" >>

PLATFORMS ==
  ("github" :> [id |-> <<"g","i","t","h","u","b">>, name |-> "GitHub",
      keywords |-> << <<"g","i","t","h","u","b">>, <<"g","h">> >>,
      urlPattern |-> <<"h","t","t","p","s",":","/","/","g","i","t","h","u","b",".","c","o","m","/","{","o","w","n","e","r","}","/","{","r","e","p","o","}","{","p","a","t","h","}">>,
      domain |-> <<"g","i","t","h","u","b",".","c","o","m">>,
      singleName |-> FALSE, allowAt |-> FALSE]) @@
  ("gitlab" :> [id |-> <<"g","i","t","l","a","b">>, name |-> "GitLab",
      keywords |-> << <<"g","i","t","l","a","b">>, <<"g","l">> >>,
      urlPattern |-> <<"h","t","t","p","s",":","/","/","g","i","t","l","a","b",".","c","o","m","/","{","o","w","n","e","r","}","/","{","r","e","p","o","}","{","p","a","t","h","}">>,
      domain |-> <<"g","i","t","l","a","b",".","c","o","m">>,
      singleName |-> FALSE, allowAt |-> FALSE]) @@
  ("bitbucket" :> [id |-> <<"b","i","t","b","u","c","k","e","t">>, name |-> "Bitbucket",
      keywords |-> << <<"b","i","t","b","u","c","k","e","t">>, <<"b","b">> >>,
      urlPattern |-> <<"h","t","t","p","s",":","/","/","b","i","t","b","u","c","k","e","t",".","o","r","g","/","{","o","w","n","e","r","}","/","{","r","e","p","o","}","{","p","a","t","h","}">>,
      domain |-> <<"b","i","t","b","u","c","k","e","t",".","o","r","g">>,
      singleName |-> FALSE, allowAt |-> FALSE]) @@
  ("gitee" :> [id |-> <<"g","i","t","e","e">>, name |-> "Gitee",
      keywords |-> << <<"g","i","t","e","e">>, <<"g","e">> >>,
      urlPattern |-> <<"h","t","t","p","s",":","/","/","g","i","t","e","e",".","c","o","m","/","{","o","w","n","e","r","}","/","{","r","e","p","o","}","{","p","a","t","h","}">>,
      domain |-> <<"g","i","t","e","e",".","c","o","m">>,
      singleName |-> FALSE, allowAt |-> FALSE]) @@
  ("npm" :> [id |-> <<"n","p","m">>, name |-> "npm",
      keywords |-> << <<"n","p","m">>, <<"n","p","m","j","s">> >>,
      urlPattern |-> <<"h","t","t","p","s",":","/","/","w","w","w",".","n","p","m","j","s",".","c","o","m","/","p","a","c","k","a","g","e","/","{","o","w","n","e","r","}","{","p","a","t","h","}">>,
      domain |-> <<"n","p","m","j","s",".","c","o","m">>,
      singleName |-> TRUE, allowAt |-> TRUE]) @@
  ("docker" :> [id |-> <<"d","o","c","k","e","r">>, name |-> "Docker Hub",
      keywords |-> << <<"d","o","c","k","e","r">>, <<"d","o","c","k","e","r","h","u","b">> >>,
      urlPattern |-> <<"h","t","t","p","s",":","/","/","h","u","b",".","d","o","c","k","e","r",".","c","o","m","/","r","/","{","o","w","n","e","r","}","/","{","r","e","p","o","}","{","p","a","t","h","}">>,
      domain |-> <<"h","u","b",".","d","o","c","k","e","r",".","c","o","m">>,
      singleName |-> FALSE, allowAt |-> FALSE]) @@
  ("pypi" :> [id |-> <<"p","y","p","i">>, name |-> "PyPI",
      keywords |-> << <<"p","y","p","i">>, <<"p","i","p">>, <<"p","y","t","h","o","n">> >>,
      urlPattern |-> <<"h","t","t","p","s",":","/","/","p","y","p","i",".","o","r","g","/","p","r","o","j","e","c","t","/","{","o","w","n","e","r","}","{","p","a","t","h","}">>,
      domain |-> <<"p","y","p","i",".","o","r","g">>,
      singleName |-> TRUE, allowAt |-> TRUE]) @@
  ("rubygems" :> [id |-> <<"r","u","b","y","g","e","m","s">>, name |-> "RubyGems",
      keywords |-> << <<"g","e","m">>, <<"r","u","b","y","g","e","m","s">>, <<"r","u","b","y">> >>,
      urlPattern |-> <<"h","t","t","p","s",":","/","/","r","u","b","y","g","e","m","s",".","o","r","g","/","g","e","m","s","/","{","o","w","n","e","r","}","{","p","a","t","h","}">>,
      domain |-> <<"r","u","b","y","g","e","m","s",".","o","r","g">>,
      singleName |-> TRUE, allowAt |-> FALSE]) @@
  ("packagist" :> [id |-> <<"p","a","c","k","a","g","i","s","t">>, name |-> "Packagist",
      keywords |-> << <<"p","a","c","k","a","g","i","s","t">>, <<"c","o","m","p","o","s","e","r">>, <<"p","h","p">> >>,
      urlPattern |-> <<"h","t","t","p","s",":","/","/","p","a","c","k","a","g","i","s","t",".","o","r","g","/","p","a","c","k","a","g","e","s","/","{","o","w","n","e","r","}","/","{","r","e","p","o","}","{","p","a","t","h","}">>,
      domain |-> <<"p","a","c","k","a","g","i","s","t",".","o","r","g">>,
      singleName |-> FALSE, allowAt |-> FALSE]) @@
  ("crates" :> [id |-> <<"c","r","a","t","e","s">>, name |-> "crates.io",
      keywords |-> << <<"c","r","a","t","e","s">>, <<"c","a","r","g","o">>, <<"r","u","s","t">> >>,
      urlPattern |-> <<"h","t","t","p","s",":","/","/","c","r","a","t","e","s",".","i","o","/","c","r","a","t","e","s","/","{","o","w","n","e","r","}","{","p","a","t","h","}">>,
      domain |-> <<"c","r","a","t","e","s",".","i","o">>,
      singleName |-> TRUE, allowAt |-> FALSE]) @@
  ("nuget" :> [id |-> <<"n","u","g","e","t">>, name |-> "NuGet",
      keywords |-> << <<"n","u","g","e","t">>, <<"d","o","t","n","e","t">>, <<"c","s","h","a","r","p">> >>,
      urlPattern |-> <<"h","t","t","p","s",":","/","/","w","w","w",".","n","u","g","e","t",".","o","r","g","/","p","a","c","k","a","g","e","s","/","{","o","w","n","e","r","}","{","p","a","t","h","}">>,
      domain |-> <<"n","u","g","e","t",".","o","r","g">>,
      singleName |-> TRUE, allowAt |-> FALSE]) @@
  ("maven" :> [id |-> <<"m","a","v","e","n">>, name |-> "Maven Central",
      keywords |-> << <<"m","a","v","e","n">>, <<"m","v","n">>, <<"j","a","v","a">> >>,
      urlPattern |-> <<"h","t","t","p","s",":","/","/","s","e","a","r","c","h",".","m","a","v","e","n",".","o","r","g","/","a","r","t","i","f","a","c","t","/","{","o","w","n","e","r","}","/","{","r","e","p","o","}","{","p","a","t","h","}">>,
      domain |-> <<"s","e","a","r","c","h",".","m","a","v","e","n",".","o","r","g">>,
      singleName |-> FALSE, allowAt |-> FALSE]) @@
  ("zerocat" :> [id |-> <<"z","e","r","o","c","a","t">>, name |-> "ZeroCat",
      keywords |-> << <<"z","e","r","o","c","a","t">>, <<"z","c">> >>,
      urlPattern |-> <<"h","t","t","p","s",":","/","/","z","e","r","o","c","a","t",".","d","e","v","/","{","o","w","n","e","r","}","/","{","r","e","p","o","}","{","p","a","t","h","}">>,
      domain |-> <<"z","e","r","o","c","a","t",".","d","e","v">>,
      singleName |-> FALSE, allowAt |-> FALSE])

Platforms == Range(PlatformKeys)

\* ------------------------------------------------------------------------
\* Patterns
\* ------------------------------------------------------------------------

\* the repetition bounds written in the patterns
OwnerMiddleMax == 37
RepoMax == 100

AllIn(s, chars) == \A i \in DOMAIN s : s[i] \in chars

\* [a-zA-Z0-9](?:[a-zA-Z0-9-]{0,37}[a-zA-Z0-9])?
IsOwner(s) ==
  /\ Len(s) >= 1
  /\ s[1] \in AlnumChars
  /\ \/ Len(s) = 1
     \/ /\ Len(s) - 2 <= OwnerMiddleMax
        /\ AllIn(SubSeq(s, 2, Len(s) - 1), OwnerChars)
        /\ s[Len(s)] \in AlnumChars

NoMatch == [matched |-> FALSE]

\* the text up to the first slash and the text from that slash on
\* (the whole text and nothing when there is no slash)
Segment(s) ==
  LET i == IndexOfChar(s, "/")
  IN IF i = 0 THEN [seg |-> s, rest |-> <<>>]
              ELSE [seg |-> Take(s, i - 1), rest |-> Drop(s, i - 1)]

\* ([\w.-]+)(\/.*)?$ applied to the text after "owner/": the repo and
\* the path group, which is undefined when absent
RepoAndPath(s) ==
  LET sp == Segment(s)
  IN IF sp.seg # <<>> /\ AllIn(sp.seg, RepoChars)
          /\ \A i \in DOMAIN sp.rest : sp.rest[i] \notin LineTerminators
       THEN [matched |-> TRUE, repo |-> sp.seg,
             hasPath |-> sp.rest # <<>>, path |-> sp.rest]
       ELSE NoMatch

\* REPO_PATTERN
REPO_PATTERN(s) ==
  LET sp == Segment(s)
      repo == Drop(sp.rest, 1)
  IN IF sp.rest # <<>> /\ IsOwner(sp.seg)
          /\ Len(repo) >= 1 /\ Len(repo) <= RepoMax /\ AllIn(repo, RepoChars)
       THEN [matched |-> TRUE, owner |-> sp.seg, repo |-> repo,
             hasPath |-> FALSE, path |-> <<>>]
       ELSE NoMatch

\* REPO_WITH_PATH_PATTERN
REPO_WITH_PATH_PATTERN(s) ==
  LET sp == Segment(s)
      rp == RepoAndPath(Drop(sp.rest, 1))
  IN IF sp.rest # <<>> /\ IsOwner(sp.seg) /\ rp.matched
       THEN [matched |-> TRUE, owner |-> sp.seg, repo |-> rp.repo,
             hasPath |-> rp.hasPath, path |-> rp.path]
       ELSE NoMatch

t_http == <<"h","t","t","p",":","/","/">>
t_https == <<"h","t","t","p","s",":","/","/">>
t_www == <<"w","w","w",".">>

\* FULL_URL_PATTERN: the scheme and "www." are optional and taken when
\* present; "www." is given back to the domain group when nothing else
\* would be left for it
FULL_URL_PATTERN(s) ==
  LET noScheme == IF StartsWith(s, t_https) THEN Drop(s, Len(t_https))
                  ELSE IF StartsWith(s, t_http) THEN Drop(s, Len(t_http))
                  ELSE s
      d == Segment(noScheme)
      domain == IF StartsWith(d.seg, t_www) /\ Len(d.seg) > Len(t_www)
                  THEN Drop(d.seg, Len(t_www))
                  ELSE d.seg
      o == Segment(Drop(d.rest, 1))
      rp == RepoAndPath(Drop(o.rest, 1))
  IN IF /\ d.seg # <<>> /\ AllIn(d.seg, DomainChars) /\ d.rest # <<>>
        /\ IsOwner(o.seg) /\ o.rest # <<>>
        /\ rp.matched
       THEN [matched |-> TRUE, domain |-> domain, owner |-> o.seg,
             repo |-> rp.repo, hasPath |-> rp.hasPath, path |-> rp.path]
       ELSE NoMatch

\* ------------------------------------------------------------------------
\* Resolver
\* ------------------------------------------------------------------------

Target(platform, owner, repo, path) ==
  [platform |-> platform, owner |-> owner, repo |-> repo, path |-> path]

\* the first element of keys that is in hits, or null: the loop over
\* Object.entries(PLATFORMS) that returns at the last hit
FirstKey_lastHit(keys, hits) ==
  IF \E i \in DOMAIN keys : keys[i] \in hits
    THEN keys[Max({i \in DOMAIN keys : keys[i] \in hits})]
    ELSE NullKey

\* Object.entries(PLATFORMS) that returns at the first hit
FirstKey(keys, hits) ==
  IF \E i \in DOMAIN keys : keys[i] \in hits
    THEN keys[Min({i \in DOMAIN keys : keys[i] \in hits})]
    ELSE NullKey

findPlatformByKeyword(keyword) ==
  LET lowerKeyword == ToLower(keyword)
      Has(key) == lowerKeyword \in Range(PLATFORMS[key].keywords)
  IN FirstKey(PlatformKeys, {key \in Platforms : Has(key)})

\* findPlatformByDomain with a loop that stops one entry early
findPlatformByDomain_stopsEarly(domain) ==
  LET lowerDomain == ToLower(domain)
      Hit(key) == \/ Includes(lowerDomain, PLATFORMS[key].domain)
                  \/ Includes(PLATFORMS[key].domain, lowerDomain)
  IN FirstKey(Take(PlatformKeys, Len(PlatformKeys) - 1),
              {key \in Platforms : Hit(key)})

findPlatformByDomain(domain) ==
  LET lowerDomain == ToLower(domain)
      Hit(key) == \/ Includes(lowerDomain, PLATFORMS[key].domain)
                  \/ Includes(PLATFORMS[key].domain, lowerDomain)
  IN FirstKey(PlatformKeys, {key \in Platforms : Hit(key)})

\* buildRepoUrl without the substitution of {repo}
buildRepoUrl_keepsRepoPlaceholder(platform, owner, repo, path) ==
  IF platform \notin Platforms THEN NullText
  ELSE Replace(Replace(PLATFORMS[platform].urlPattern,
                       <<"{","o","w","n","e","r","}">>, owner),
               <<"{","p","a","t","h","}">>, path)

\* buildRepoUrl falling back to the template of the default platform
buildRepoUrl_fallsBackToDefault(platform, owner, repo, path) ==
  LET config == IF platform \in Platforms THEN PLATFORMS[platform]
                ELSE PLATFORMS[DEFAULT_PLATFORM]
  IN Replace(Replace(Replace(config.urlPattern,
                             <<"{","o","w","n","e","r","}">>, owner),
                     <<"{","r","e","p","o","}">>, repo),
             <<"{","p","a","t","h","}">>, path)

buildRepoUrl(platform, owner, repo, path) ==
  IF platform \notin Platforms THEN NullText
  ELSE Replace(Replace(Replace(PLATFORMS[platform].urlPattern,
                               <<"{","o","w","n","e","r","}">>, owner),
                       <<"{","r","e","p","o","}">>, repo),
               <<"{","p","a","t","h","}">>, path)

\* parseRepoInput binding owner/repo to github whatever the default is
parseRepoInput_alwaysGithub(input) ==
  LET trimmed == Trim(input)
      url == FULL_URL_PATTERN(trimmed)
      withPath == REPO_WITH_PATH_PATTERN(trimmed)
      basic == REPO_PATTERN(trimmed)
  IN IF trimmed = <<>> THEN NullTarget
     ELSE IF url.matched /\ findPlatformByDomain(url.domain) # NullKey
       THEN Target(findPlatformByDomain(url.domain), url.owner, url.repo,
                   url.path)
     ELSE IF withPath.matched
       THEN Target("github", withPath.owner, withPath.repo, withPath.path)
     ELSE IF basic.matched
       THEN Target("github", basic.owner, basic.repo, <<>>)
     ELSE NullTarget

\* parseRepoInput binding a full URL to the default platform instead of
\* the platform of its domain
parseRepoInput_urlToDefault(input) ==
  LET trimmed == Trim(input)
      url == FULL_URL_PATTERN(trimmed)
      withPath == REPO_WITH_PATH_PATTERN(trimmed)
      basic == REPO_PATTERN(trimmed)
  IN IF trimmed = <<>> THEN NullTarget
     ELSE IF url.matched /\ findPlatformByDomain(url.domain) # NullKey
       THEN Target(DEFAULT_PLATFORM, url.owner, url.repo, url.path)
     ELSE IF withPath.matched
       THEN Target(DEFAULT_PLATFORM, withPath.owner, withPath.repo,
                   withPath.path)
     ELSE IF basic.matched
       THEN Target(DEFAULT_PLATFORM, basic.owner, basic.repo, <<>>)
     ELSE NullTarget

parseRepoInput(input) ==
  LET trimmed == Trim(input)
      url == FULL_URL_PATTERN(trimmed)
      withPath == REPO_WITH_PATH_PATTERN(trimmed)
      basic == REPO_PATTERN(trimmed)
  IN IF trimmed = <<>> THEN NullTarget
     ELSE IF url.matched /\ findPlatformByDomain(url.domain) # NullKey
       THEN Target(findPlatformByDomain(url.domain), url.owner, url.repo,
                   url.path)
     ELSE IF withPath.matched
       THEN Target(DEFAULT_PLATFORM, withPath.owner, withPath.repo,
                   withPath.path)
     ELSE IF basic.matched
       THEN Target(DEFAULT_PLATFORM, basic.owner, basic.repo, <<>>)
     ELSE NullTarget

parseSearchQuery(query) ==
  LET trimmed == Trim(query)
      parts == SplitSpaces(trimmed)
      firstPlatform == findPlatformByKeyword(parts[1])
      lastPlatform == findPlatformByKeyword(parts[Len(parts)])
      detectedPlatform ==
        IF Len(parts) >= 2 /\ firstPlatform # NullKey THEN firstPlatform
        ELSE IF Len(parts) >= 2 /\ lastPlatform # NullKey THEN lastPlatform
        ELSE DEFAULT_PLATFORM
      cleanQuery ==
        IF Len(parts) >= 2 /\ firstPlatform # NullKey
          THEN JoinSpaces(Tail(parts))
        ELSE IF Len(parts) >= 2 /\ lastPlatform # NullKey
          THEN JoinSpaces(Take(parts, Len(parts) - 1))
        ELSE trimmed
      result == parseRepoInput(cleanQuery)
  IN IF trimmed = <<>> THEN NullTarget
     ELSE IF result # NullTarget
       THEN [result EXCEPT !.platform = detectedPlatform]
     ELSE NullTarget

\* chrome.omnibox.onInputEntered after the feature check: the URL handed to
\* openUrl (null when nothing is opened) and the platform, owner, repo and
\* path the handler has bound by then
omniboxEntered(text) ==
  LET trimmedText == Trim(text)
      urlMatch == FULL_URL_PATTERN(trimmedText)
      hasSlash == Includes(trimmedText, <<"/">>)
      hasSpace == \E i \in DOMAIN trimmedText : trimmedText[i] \in WhiteSpace
      lower == ToLower(trimmedText)
      Prefixed(key) ==
        \E i \in DOMAIN PLATFORMS[key].keywords :
          StartsWith(PLATFORMS[key].keywords[i], lower)
      \* matchedPlatforms after the sort that puts the default platform first
      firstKey == IF Prefixed(DEFAULT_PLATFORM) THEN DEFAULT_PLATFORM
                  ELSE FirstKey(PlatformKeys, {key \in Platforms : Prefixed(key)})
      parts == SplitSpaces(trimmedText)
      firstPlatform == findPlatformByKeyword(parts[1])
      lastPlatform == findPlatformByKeyword(parts[Len(parts)])
      platform ==
        IF Len(parts) >= 2 /\ firstPlatform # NullKey THEN firstPlatform
        ELSE IF Len(parts) >= 2 /\ lastPlatform # NullKey THEN lastPlatform
        ELSE DEFAULT_PLATFORM
      inputName ==
        IF Len(parts) >= 2 /\ firstPlatform # NullKey
          THEN JoinSpaces(Tail(parts))
        ELSE IF Len(parts) >= 2 /\ lastPlatform # NullKey
          THEN JoinSpaces(Take(parts, Len(parts) - 1))
        ELSE trimmedText
      m == IF REPO_WITH_PATH_PATTERN(inputName).matched
             THEN REPO_WITH_PATH_PATTERN(inputName)
             ELSE REPO_PATTERN(inputName)
      Home(key) == t_https \o PLATFORMS[key].domain \o <<"/">>
      Opened(kind, url, p, o, r, x) ==
        [kind |-> kind, url |-> url, platform |-> p, owner |-> o,
         repo |-> r, path |-> x]
      Repo(p, o, r, x) == Opened("repo", buildRepoUrl(p, o, r, x), p, o, r, x)
  IN IF trimmedText = <<>>
       THEN Opened("none", NullText, DEFAULT_PLATFORM, <<>>, <<>>, <<>>)
     ELSE IF urlMatch.matched
       THEN IF findPlatformByDomain(urlMatch.domain) # NullKey
              THEN Repo(findPlatformByDomain(urlMatch.domain), urlMatch.owner,
                        urlMatch.repo, urlMatch.path)
              ELSE Repo(DEFAULT_PLATFORM, <<>>, <<>>, <<>>)
     ELSE IF ~hasSlash /\ ~hasSpace
       THEN IF firstKey # NullKey
              THEN Opened("home", Home(firstKey), firstKey, <<>>, <<>>, <<>>)
              ELSE Opened("profile", Home(DEFAULT_PLATFORM) \o trimmedText,
                          DEFAULT_PLATFORM, <<>>, <<>>, <<>>)
     ELSE IF PLATFORMS[platform].singleName
       THEN Repo(platform, inputName, <<>>, <<>>)
     ELSE IF Includes(inputName, <<"/">>)
       THEN IF m.matched THEN Repo(platform, m.owner, m.repo, m.path)
                         ELSE Repo(platform, <<>>, <<>>, <<>>)
     ELSE Opened("profile", Home(platform) \o inputName, platform,
                 <<>>, <<>>, <<>>)

\* ------------------------------------------------------------------------
\* Texts used as inputs
\* ------------------------------------------------------------------------

Rep(c, n) == [i \in 1..n |-> c]

x_o == <<"o">>
x_r == <<"r">>
x_react == <<"r","e","a","c","t">>
x_microsoft == <<"m","i","c","r","o","s","o","f","t">>
x_vscode == <<"v","s","c","o","d","e">>
x_owner == <<"o","w","n","e","r">>
x_repo == <<"r","e","p","o">>
x_my_org == <<"m","y","-","o","r","g">>
x_dotted == <<"a",".","b","_","c","-","d">>
x_example_com == <<"e","x","a","m","p","l","e",".","c","o","m">>
x_issues_5 == <<"/","i","s","s","u","e","s","/","5">>
x_package == <<"p","a","c","k","a","g","e">>

x_localhost == <<"l","o","c","a","l","h","o","s","t">>
x_google == <<"g","o","o","g","l","e">>

\* ------------------------------------------------------------------------
\* Settings: chrome.storage.sync, written by the options page
\* ------------------------------------------------------------------------

\* the platforms the options page offers as the default
AVAILABLE_DEFAULT_PLATFORMS == <<"github", "gitlab", "bitbucket", "gitee">>

DEFAULT_BYPASS_PATTERNS == <<x_localhost>>

SearchRedirectModes == {"autoJump", "tabJump", "newTab"}

FeatureToggles == {"featureOmnibox", "featureSearchRedirect",
                   "featureDnsIntercept"}

\* what onInstalled writes on a first install
InstalledSettings ==
  [customBypassPatterns |-> <<>>,
   defaultPlatform |-> "github",
   featureOmnibox |-> TRUE,
   featureSearchRedirect |-> TRUE,
   featureDnsIntercept |-> TRUE,
   searchRedirectMode |-> "autoJump"]

\* how many navigation and keyboard events a behaviour has, and how many
\* times the options page saves a setting
MaxEvents == 3
MaxSaves == 1

\* the patterns typed into the options page
PatternInputs == {<<" ">> \o x_google, <<" ">>}

RemoveAt(s, i) == [j \in 1..(Len(s) - 1) |-> IF j < i THEN s[j] ELSE s[j + 1]]

\* options page: the default platform select changes
saveDefaultPlatform ==
  /\ saved < MaxSaves
  /\ \E value \in Range(AVAILABLE_DEFAULT_PLATFORMS) :
       /\ value # sync.defaultPlatform
       /\ sync' = [sync EXCEPT !.defaultPlatform = value]
       /\ changes' = Append(changes, value)
  /\ saved' = saved + 1
  /\ UNCHANGED <<DEFAULT_PLATFORM, guardVars, browserVars, historyVars>>

\* options page: one of the three feature checkboxes changes
saveFeatureToggles ==
  /\ saved < MaxSaves
  /\ \E f \in FeatureToggles : sync' = [sync EXCEPT ![f] = ~@]
  /\ saved' = saved + 1
  /\ UNCHANGED <<DEFAULT_PLATFORM, guardVars, changes, browserVars,
                 historyVars>>

\* options page: another search redirect mode is selected
saveSearchRedirectMode ==
  /\ saved < MaxSaves
  /\ \E mode \in SearchRedirectModes :
       /\ mode # sync.searchRedirectMode
       /\ sync' = [sync EXCEPT !.searchRedirectMode = mode]
  /\ saved' = saved + 1
  /\ UNCHANGED <<DEFAULT_PLATFORM, guardVars, changes, browserVars,
                 historyVars>>

\* options page: a bypass pattern is added
addPattern ==
  /\ saved < MaxSaves
  /\ \E input \in PatternInputs :
       LET pattern == Trim(input)
           patterns == sync.customBypassPatterns
       IN sync' = IF pattern = <<>> \/ pattern \in Range(patterns)
                    THEN sync
                    ELSE [sync EXCEPT
                            !.customBypassPatterns = Append(patterns, pattern)]
  /\ saved' = saved + 1
  /\ UNCHANGED <<DEFAULT_PLATFORM, guardVars, changes, browserVars,
                 historyVars>>

\* options page: the delete button of a listed pattern (the list only
\* gets shorter, so these steps need no budget)
deletePattern ==
  /\ \E index \in 1..Len(sync.customBypassPatterns) :
       sync' = [sync EXCEPT !.customBypassPatterns = RemoveAt(@, index)]
  /\ UNCHANGED <<DEFAULT_PLATFORM, guardVars, changes, saved, browserVars,
                 historyVars>>

\* background: the storage.onChanged listener
StorageChanged ==
  /\ changes # <<>>
  /\ LET value == Head(changes)
     IN DEFAULT_PLATFORM' = IF value \in Platforms THEN value
                            ELSE DEFAULT_PLATFORM
  /\ changes' = Tail(changes)
  /\ UNCHANGED <<guardVars, sync, saved, browserVars, historyVars>>

\* the browser's tabs
Tabs == {1, 2}

\* no value under a key of chrome.storage.local
NoItem == [null |-> TRUE]

EmptyLocal ==
  [search_jump |-> [t \in Tabs |-> NoItem],
   repo_source |-> [t \in Tabs |-> NoItem]]

\* nothing is stored locally, pending or logged
Quiet ==
  /\ changes = <<>>
  /\ saved = 0
  /\ local = EmptyLocal
  /\ procs = {}
  /\ page = [t \in Tabs |-> "other"]
  /\ events = 0
  /\ navs = <<>>
  /\ built = <<>>

getBypassPatterns == DEFAULT_BYPASS_PATTERNS \o sync.customBypassPatterns

getFeatureToggles ==
  [featureOmnibox |-> sync.featureOmnibox,
   featureSearchRedirect |-> sync.featureSearchRedirect,
   featureDnsIntercept |-> sync.featureDnsIntercept,
   searchRedirectMode |-> sync.searchRedirectMode]

shouldBypass(url, bypassPatterns) ==
  LET urlLower == ToLower(url)
  IN \E i \in 1..Len(bypassPatterns) :
       Includes(urlLower, ToLower(bypassPatterns[i]))

\* ------------------------------------------------------------------------
\* Redirect guard
\* ------------------------------------------------------------------------

\* the two windows of the guard, in milliseconds
RecentWindowMs == 5000
PurgeDelayMs == 10000

\* `${platform}:${owner}/${repo}`
JumpKey(platform, owner, repo) ==
  (IF platform \in Platforms THEN PLATFORMS[platform].id ELSE <<platform>>)
  \o <<":">> \o owner \o <<"/">> \o repo

\* Map.prototype.get followed by a truthiness test: the entry exists and
\* its timestamp is not 0
HasJump(jumps, key) == key \in DOMAIN jumps /\ jumps[key] # 0

\* Map.prototype.delete
DeleteJump(jumps, key) == [k \in DOMAIN jumps \ {key} |-> jumps[k]]

\* Map.prototype.set
SetJump(jumps, key, t) ==
  [k \in DOMAIN jumps \cup {key} |-> IF k = key THEN t ELSE jumps[k]]

\* isRecentJump with <= in place of <
isRecentJump_inclusive(jumps, t, platform, owner, repo) ==
  LET key == JumpKey(platform, owner, repo)
  IN IF ~HasJump(jumps, key) THEN [result |-> FALSE, jumps |-> jumps]
     ELSE IF t - jumps[key] <= RecentWindowMs
       THEN [result |-> TRUE, jumps |-> jumps]
     ELSE [result |-> FALSE, jumps |-> DeleteJump(jumps, key)]

\* isRecentJump at time t: its result and the Map it leaves
isRecentJump(jumps, t, platform, owner, repo) ==
  LET key == JumpKey(platform, owner, repo)
  IN IF ~HasJump(jumps, key) THEN [result |-> FALSE, jumps |-> jumps]
     ELSE IF t - jumps[key] < RecentWindowMs
       THEN [result |-> TRUE, jumps |-> jumps]
     ELSE [result |-> FALSE, jumps |-> DeleteJump(jumps, key)]

\* recordJump at time t: the Map and the pending timers it leaves
recordJump(jumps, pending, t, platform, owner, repo) ==
  LET key == JumpKey(platform, owner, repo)
  IN [jumps |-> SetJump(jumps, key, t),
      timers |-> pending \cup {[key |-> key, due |-> t + PurgeDelayMs]}]

\* the callback with > in place of >=
purgeCallback_strict(jumps, t, key) ==
  IF HasJump(jumps, key) /\ t - jumps[key] > PurgeDelayMs
    THEN DeleteJump(jumps, key)
    ELSE jumps

\* the callback that recordJump hands to setTimeout, run at time t
purgeCallback(jumps, t, key) ==
  IF HasJump(jumps, key) /\ t - jumps[key] >= PurgeDelayMs
    THEN DeleteJump(jumps, key)
    ELSE jumps

\* the steps of the clock and how many of them are taken; a suspended
\* handler resumes before the clock's next step, since the storage calls
\* it awaits answer within milliseconds; the program looks only at
\* differences of times, so the clock is held until a timestamp is kept
TickMs == 2500
MaxTicks == 4

Tick ==
  /\ now < TickMs * (MaxTicks + 1)
  /\ procs = {}
  /\ recentJumps # <<>> \/ timers # {} \/ local # EmptyLocal
  /\ now' = now + TickMs
  /\ UNCHANGED <<DEFAULT_PLATFORM, recentJumps, timers, settingVars,
                 browserVars, historyVars>>

\* a timer runs its callback at or after the time it is due
TimerFires ==
  \E tm \in timers :
    /\ now >= tm.due
    /\ recentJumps' = purgeCallback(recentJumps, now, tm.key)
    /\ timers' = timers \ {tm}
    /\ UNCHANGED <<DEFAULT_PLATFORM, now, settingVars, browserVars,
                   historyVars>>

\* the targets the guard is called with
GuardTargets ==
  {Target("github", x_microsoft, x_vscode, <<>>),
   Target("npm", x_microsoft, x_vscode, <<>>)}

NeverAsked == [asked |-> FALSE]

\* a call of recordJump
GuardRecord ==
  \E tg \in GuardTargets :
    LET r == recordJump(recentJumps, timers, now, tg.platform, tg.owner,
                        tg.repo)
        key == JumpKey(tg.platform, tg.owner, tg.repo)
    IN /\ recentJumps' = r.jumps
       /\ timers' = r.timers
       /\ lastRecord' = SetJump(lastRecord, key, now)
       /\ UNCHANGED <<DEFAULT_PLATFORM, now, settingVars, browserVars, navs,
                      asked, call, built>>

\* a call of isRecentJump
GuardQuery ==
  \E tg \in GuardTargets :
    LET q == isRecentJump(recentJumps, now, tg.platform, tg.owner, tg.repo)
        key == JumpKey(tg.platform, tg.owner, tg.repo)
    IN /\ recentJumps' = q.jumps
       /\ asked' = [asked |-> TRUE, key |-> key, at |-> now,
                    result |-> q.result,
                    recorded |-> key \in DOMAIN lastRecord,
                    recordedAt |-> IF key \in DOMAIN lastRecord
                                     THEN lastRecord[key] ELSE 0]
       /\ UNCHANGED <<DEFAULT_PLATFORM, now, timers, settingVars, browserVars,
                      navs, lastRecord, call, built>>

GuardInit ==
  /\ DEFAULT_PLATFORM = "github"
  /\ sync = InstalledSettings
  /\ Quiet
  /\ now = TickMs
  /\ recentJumps = <<>>
  /\ timers = {}
  /\ lastRecord = <<>>
  /\ asked = NeverAsked
  /\ call = NoCall

GuardNext == GuardRecord \/ GuardQuery \/ TimerFires \/ Tick

\* ------------------------------------------------------------------------
\* Inputs of the resolver
\* ------------------------------------------------------------------------

\* owners and repos at the ends of the lengths the patterns allow
LongestOwner == Rep("a", OwnerMiddleMax + 2)
LongestRepo == Rep("b", RepoMax)

ValidOwners == {x_o, x_microsoft, x_owner, x_my_org, x_package, LongestOwner}
InvalidOwners ==
  {<<"-","o">>, <<"o","-">>, <<"a","_","b">>, Rep("a", OwnerMiddleMax + 3)}
ValidRepos == {x_r, x_vscode, x_repo, x_react, x_dotted, LongestRepo}
OverlongRepos == {Rep("b", RepoMax + 1)}
ValidPaths == {<<>>, <<"/">>, x_issues_5}
Schemes == {<<>>, t_http, t_https}
Keywords ==
  UNION {Range(PLATFORMS[k].keywords) : k \in Platforms}
  \cup {<<"N","P","M">>, <<"G","h">>}

\* how an input text is put together: an optional leading and trailing
\* word, an optional scheme, "www." and host, then owner[/repo][path]
Shape(lead, scheme, www, host, owner, repo, path, trail) ==
  [lead |-> lead, scheme |-> scheme, www |-> www, host |-> host,
   owner |-> owner, repo |-> repo, path |-> path, trail |-> trail]

TextOf(sh) ==
  (IF sh.lead = <<>> THEN <<>> ELSE sh.lead \o <<" ">>)
  \o sh.scheme \o sh.www
  \o (IF sh.host = <<>> THEN <<>> ELSE sh.host \o <<"/">>)
  \o sh.owner
  \o (IF sh.repo = <<>> THEN <<>> ELSE <<"/">> \o sh.repo)
  \o sh.path
  \o (IF sh.trail = <<>> THEN <<>> ELSE <<" ">> \o sh.trail)

NameShapes ==
  {Shape(<<>>, <<>>, <<>>, <<>>, o, <<>>, <<>>, <<>>) :
     o \in {x_react, x_o, <<"@","a">>}}
BareShapes ==
  {Shape(<<>>, <<>>, <<>>, <<>>, o, r, <<>>, <<>>) :
     o \in ValidOwners \cup InvalidOwners, r \in ValidRepos \cup OverlongRepos}
PathShapes ==
  {Shape(<<>>, <<>>, <<>>, <<>>, o, r, p, <<>>) :
     o \in {x_o, x_package, LongestOwner, <<"-","o">>},
     r \in {x_r, x_react, LongestRepo} \cup OverlongRepos,
     p \in ValidPaths \ {<<>>}}
UrlShapes ==
  {Shape(<<>>, s, w, h, o, r, p, <<>>) :
     s \in Schemes, w \in {<<>>, t_www},
     h \in {PLATFORMS[k].domain : k \in Platforms} \cup {x_example_com},
     o \in {x_o, LongestOwner}, r \in {x_r}, p \in ValidPaths}
DirectShapes == NameShapes \cup BareShapes \cup PathShapes \cup UrlShapes

\* the identifiers used inside search queries
QueryInner ==
  NameShapes
  \cup {Shape(<<>>, <<>>, <<>>, <<>>, x_microsoft, x_vscode, <<>>, <<>>),
        Shape(<<>>, <<>>, <<>>, <<>>, x_o, x_r, x_issues_5, <<>>),
        Shape(<<>>, t_https, <<>>, PLATFORMS["gitlab"].domain,
              x_owner, x_repo, x_issues_5, <<>>)}
QueryShapes ==
  {[[sh EXCEPT !.lead = kw] EXCEPT !.trail = tr] :
     sh \in QueryInner,
     kw \in Keywords \cup {<<>>}, tr \in {<<>>, <<"n","p","m">>}}
  \cup {[sh EXCEPT !.trail = kw] : sh \in QueryInner, kw \in Keywords}

\* a platform keyword and nothing else
KeywordShapes ==
  {Shape(<<>>, <<>>, <<>>, <<>>, kw, <<>>, <<>>, <<>>) : kw \in Keywords}

\* the texts entered in the omnibox
OmniboxShapes ==
  QueryShapes \cup NameShapes \cup PathShapes \cup KeywordShapes
  \cup {sh \in BareShapes : sh.repo = x_r}
  \cup {sh \in UrlShapes : sh.scheme = t_https /\ sh.www = <<>> /\ sh.owner = x_o}

\* ------------------------------------------------------------------------
\* The resolver functions applied to every input
\* ------------------------------------------------------------------------

Called(fn, sh, res) == [fn |-> fn, shape |-> sh, arg |-> TextOf(sh), res |-> res]

ParseInit ==
  /\ DEFAULT_PLATFORM \in Range(AVAILABLE_DEFAULT_PLATFORMS)
  /\ sync = [InstalledSettings EXCEPT !.defaultPlatform = DEFAULT_PLATFORM]
  /\ Quiet
  /\ now = TickMs
  /\ recentJumps = <<>>
  /\ timers = {}
  /\ lastRecord = <<>>
  /\ asked = NeverAsked
  /\ call = NoCall

CallParseRepoInput ==
  /\ call = NoCall
  /\ \E sh \in DirectShapes :
       call' = Called("parseRepoInput", sh, parseRepoInput(TextOf(sh)))
  /\ UNCHANGED <<DEFAULT_PLATFORM, guardVars, settingVars, browserVars, navs,
                 lastRecord, asked, built>>

CallParseSearchQuery ==
  /\ call = NoCall
  /\ \E sh \in QueryShapes :
       call' = Called("parseSearchQuery", sh, parseSearchQuery(TextOf(sh)))
  /\ UNCHANGED <<DEFAULT_PLATFORM, guardVars, settingVars, browserVars, navs,
                 lastRecord, asked, built>>

CallOmniboxEntered ==
  /\ call = NoCall
  /\ \E sh \in OmniboxShapes :
       call' = Called("omniboxEntered", sh, omniboxEntered(TextOf(sh)))
  /\ UNCHANGED <<DEFAULT_PLATFORM, guardVars, settingVars, browserVars, navs,
                 lastRecord, asked, built>>

\* the hosts handed to findPlatformByDomain
DomainInputs ==
  {PLATFORMS[k].domain : k \in Platforms}
  \cup {t_www \o PLATFORMS[k].domain : k \in Platforms}
  \cup {x_example_com, x_o, <<"g","i","t">>,
        <<"G","i","t","H","u","b",".","c","o","m">>}

CallFindPlatformByDomain ==
  /\ call = NoCall
  /\ \E d \in DomainInputs :
       call' = [fn |-> "findPlatformByDomain", arg |-> d,
                res |-> findPlatformByDomain(d)]
  /\ UNCHANGED <<DEFAULT_PLATFORM, guardVars, settingVars, browserVars, navs,
                 lastRecord, asked, built>>

\* the owners, repos and paths handed to buildRepoUrl; q7 and z9 occur in
\* no template
x_q7 == <<"q","7">>
x_z9 == <<"z","9">>
BuildOwners == {x_o, x_q7, x_microsoft}
BuildRepos == {x_r, x_z9, x_vscode}

CallBuildRepoUrl ==
  /\ call = NoCall
  /\ \E k \in Platforms \cup {"nope"}, o \in BuildOwners, r \in BuildRepos,
        x \in ValidPaths :
       call' = [fn |-> "buildRepoUrl", platform |-> k, owner |-> o,
                repo |-> r, path |-> x, res |-> buildRepoUrl(k, o, r, x)]
  /\ UNCHANGED <<DEFAULT_PLATFORM, guardVars, settingVars, browserVars, navs,
                 lastRecord, asked, built>>

\* parseRepoInput called with a URL that buildRepoUrl returned, for a
\* platform of the registry and a repo where the platform has one
CallParseBuiltUrl ==
  /\ call = NoCall
  /\ \E k \in Platforms, o \in BuildOwners, r \in BuildRepos \cup {<<>>},
        x \in ValidPaths :
       /\ PLATFORMS[k].singleName <=> r = <<>>
       /\ \E url \in {buildRepoUrl(k, o, r, x)} :
            call' = [fn |-> "parseBuiltUrl", platform |-> k, owner |-> o,
                     repo |-> r, path |-> x, arg |-> url,
                     res |-> parseRepoInput(url)]
  /\ UNCHANGED <<DEFAULT_PLATFORM, guardVars, settingVars, browserVars, navs,
                 lastRecord, asked, built>>

ParseNext ==
  \/ CallParseRepoInput
  \/ CallParseSearchQuery
  \/ CallOmniboxEntered
  \/ CallFindPlatformByDomain
  \/ CallBuildRepoUrl
  \/ CallParseBuiltUrl

\* the argument tuples buildRepoUrl is called with again and again
BuildCalls ==
  {Target("github", x_o, x_r, <<>>),
   Target("npm", x_o, x_r, x_issues_5),
   Target("nope", x_o, x_r, <<>>)}

\* a call of buildRepoUrl, at any moment
BuildCall ==
  /\ \E a \in BuildCalls :
       LET url == buildRepoUrl(a.platform, a.owner, a.repo, a.path)
       IN built' = IF a \in DOMAIN built
                     THEN [built EXCEPT ![a] = @ \cup {url}]
                     ELSE built @@ (a :> {url})
  /\ UNCHANGED <<DEFAULT_PLATFORM, guardVars, settingVars, browserVars, navs,
                 lastRecord, asked, call>>

BuildInit ==
  /\ DEFAULT_PLATFORM = "github"
  /\ now = TickMs
  /\ recentJumps = <<>>
  /\ timers = {}
  /\ sync = InstalledSettings
  /\ Quiet
  /\ lastRecord = <<>>
  /\ asked = NeverAsked
  /\ call = NoCall

BuildNext ==
  \/ BuildCall
  \/ saveDefaultPlatform
  \/ StorageChanged
  \/ saveSearchRedirectMode
  \/ GuardRecord

SpecBuild == BuildInit /\ [][BuildNext]_vars

SpecParse == ParseInit /\ [][ParseNext]_vars

SpecGuard == GuardInit /\ [][GuardNext]_vars

\* ------------------------------------------------------------------------
\* URLs of navigation events
\* ------------------------------------------------------------------------

\* a URL as new URL(...) sees it; params are the decoded searchParams
Url(scheme, hostname, pathname, params) ==
  [scheme |-> scheme, hostname |-> hostname, pathname |-> pathname,
   params |-> params]

Param(name, value) == [name |-> name, value |-> value]

\* a query value as it is written in a URL
EncodeChar(c) ==
  IF c \in AlnumChars \cup {"-", "_", ".", "*"} THEN <<c>>
  ELSE IF c = " " THEN <<"+">>
  ELSE IF c = "/" THEN <<"%","2","F">>
  ELSE IF c = ":" THEN <<"%","3","A">>
  ELSE <<c>>

RECURSIVE Encode(_)
Encode(s) == IF s = <<>> THEN <<>> ELSE EncodeChar(Head(s)) \o Encode(Tail(s))

RECURSIVE QueryString(_)
QueryString(params) ==
  IF params = <<>> THEN <<>>
  ELSE Head(params).name \o <<"=">> \o Encode(Head(params).value)
       \o (IF Tail(params) = <<>> THEN <<>>
           ELSE <<"&">> \o QueryString(Tail(params)))

\* details.url, the text of the URL
Href(u) ==
  u.scheme \o u.hostname \o u.pathname
  \o (IF u.params = <<>> THEN <<>> ELSE <<"?">> \o QueryString(u.params))

searchParamsHas(u, name) == \E i \in DOMAIN u.params : u.params[i].name = name

searchParamsGet(u, name) ==
  IF searchParamsHas(u, name)
    THEN u.params[Min({i \in DOMAIN u.params : u.params[i].name = name})].value
    ELSE NullText

\* the parameter names extractSearchQuery and isPossibleSearchEngine try
SearchParamNames ==
  << <<"q">>, <<"q","u","e","r","y">>, <<"s","e","a","r","c","h">>,
     <<"w","d">>, <<"w","o","r","d">>, <<"t","e","x","t">>, <<"s">>,
     <<"s","e","a","r","c","h","_","q","u","e","r","y">>, <<"k">>,
     <<"k","e","y","w","o","r","d","s">>, <<"q","t">>, <<"p">> >>

extractSearchQuery(u) ==
  LET Usable(value) ==
        value # NullText /\ value # <<>> /\ Trim(value) # <<>>
      hits == {i \in DOMAIN SearchParamNames :
                 Usable(searchParamsGet(u, SearchParamNames[i]))}
  IN IF hits = {} THEN NullText
     ELSE searchParamsGet(u, SearchParamNames[Min(hits)])

excludePatterns ==
  << <<"g","i","t","h","u","b",".","c","o","m">>,
     <<"g","i","t","l","a","b",".","c","o","m">>,
     <<"b","i","t","b","u","c","k","e","t",".","o","r","g">>,
     <<"g","i","t","e","e",".","c","o","m">>,
     x_localhost,
     <<"1","2","7",".","0",".","0",".","1">>,
     <<"1","9","2",".","1","6","8",".">>,
     <<"1","0",".","0",".">>,
     <<"1","7","2",".","1","6",".">> >>

isPossibleSearchEngine(u) ==
  /\ \A i \in DOMAIN excludePatterns : ~Includes(u.hostname, excludePatterns[i])
  /\ \E i \in DOMAIN SearchParamNames : searchParamsHas(u, SearchParamNames[i])

\* (url.hostname + url.pathname).replace(/^\//, '').replace(/\/$/, '')
fullPath(u) ==
  LET joined == u.hostname \o u.pathname
      noLead == IF joined # <<>> /\ Head(joined) = "/" THEN Tail(joined)
                ELSE joined
  IN IF noLead # <<>> /\ noLead[Len(noLead)] = "/"
       THEN Take(noLead, Len(noLead) - 1)
       ELSE noLead

t_github_com == <<"g","i","t","h","u","b",".","c","o","m">>
t_google_com == <<"w","w","w",".","g","o","o","g","l","e",".","c","o","m">>
t_search == <<"/","s","e","a","r","c","h">>

u_search_repo ==
  Url(t_https, t_google_com, t_search,
      <<Param(<<"q">>, x_microsoft \o <<"/">> \o x_vscode)>>)
u_search_listed ==
  Url(t_https, t_google_com, t_search,
      <<Param(<<"q">>, x_localhost \o <<"/">> \o x_repo)>>)
u_typed_repo == Url(t_http, x_microsoft, <<"/">> \o x_vscode, <<>>)
u_typed_listed ==
  Url(t_http, x_localhost \o <<"-">> \o x_o, <<"/">> \o x_repo \o <<"/">>,
      <<>>)

Event(tab, url) == [tab |-> tab, url |-> url]

\* the search navigations: a search for owner/repo in either tab, and a
\* search for a repository whose owner is on the built-in bypass list
SearchEvents ==
  {Event(1, u_search_repo), Event(1, u_search_listed),
   Event(2, u_search_repo)}

\* the main frame requests for owner/repo typed into the address bar, whose
\* host name does not resolve: a repository, and a host on the built-in
\* bypass list
TypedEvents == {Event(2, u_typed_repo), Event(2, u_typed_listed)}

\* ------------------------------------------------------------------------
\* The background handlers and the search hint script
\* ------------------------------------------------------------------------
\* A handler that awaits a storage call is cut at the await: the call is
\* served when it is issued, and the handler resumes in a later step with
\* the value the call returned.  Navigations are seconds apart and an
\* await takes milliseconds, so a navigation event finds no handler
\* suspended; a saved setting and a pressed key may fall in between.

\* the number of a new suspended handler
NewProc == Min((1..(Cardinality(procs) + 1)) \ {p.n : p \in procs})

\* the parts of the state a handler changes, after handler p has resumed,
\* and the calls of the redirect guard the handler has made so far
Resumed(p) ==
  [jumps |-> recentJumps, timers |-> timers, local |-> local,
   procs |-> procs \ {p}, page |-> page, navs |-> navs, guard |-> <<>>]

Becomes(st) ==
  /\ recentJumps' = st.jumps
  /\ timers' = st.timers
  /\ local' = st.local
  /\ procs' = st.procs
  /\ page' = st.page
  /\ navs' = st.navs

\* isRecentJump called by a handler: its answer and the map after it
Asks(st, tg) ==
  LET q == isRecentJump(st.jumps, now, tg.platform, tg.owner, tg.repo)
  IN [recent |-> q.result,
      st |-> [st EXCEPT !.jumps = q.jumps,
                        !.guard = Append(@, IF q.result THEN "recent"
                                            ELSE "fresh")]]

\* recordJump called by a handler
Records(st, tg) ==
  LET r == recordJump(st.jumps, st.timers, now, tg.platform, tg.owner,
                      tg.repo)
  IN [st EXCEPT !.jumps = r.jumps, !.timers = r.timers,
                !.guard = Append(@, "record")]

\* openRepoUnified with line 101 reading "let finalDisposition;"
Disposes_ignoresExplicit(params, repoUrl) ==
  LET finalDisposition ==
        IF params.searchRedirectMode = "newTab" THEN "newForegroundTab"
        ELSE "currentTab"
      current == finalDisposition = "currentTab" /\ params.tabId # 0
  IN IF params.platform = "" \/ params.owner = <<>> \/ repoUrl = NullText
       THEN [opens |-> FALSE]
       ELSE [opens |-> TRUE, repoUrl |-> repoUrl, update |-> current,
             store |-> /\ current
                       /\ params.sourceUrl # NullText
                       /\ params.searchRedirectMode = "autoJump",
             active |-> finalDisposition # "newBackgroundTab"]

\* openRepoUnified with line 117 reading "if (sourceUrl) {"
Disposes_storesInAnyMode(params, repoUrl) ==
  LET finalDisposition ==
        IF params.disposition # "" THEN params.disposition
        ELSE IF params.searchRedirectMode = "newTab" THEN "newForegroundTab"
        ELSE "currentTab"
      current == finalDisposition = "currentTab" /\ params.tabId # 0
  IN IF params.platform = "" \/ params.owner = <<>> \/ repoUrl = NullText
       THEN [opens |-> FALSE]
       ELSE [opens |-> TRUE, repoUrl |-> repoUrl, update |-> current,
             store |-> current /\ params.sourceUrl # NullText,
             active |-> finalDisposition # "newBackgroundTab"]

\* openRepoUnified once the URL is built: nothing to open, or the URL,
\* whether the given tab is updated (otherwise a tab is created) and
\* whether the source of the jump is stored first
Disposes(params, repoUrl) ==
  LET finalDisposition ==
        IF params.disposition # "" THEN params.disposition
        ELSE IF params.searchRedirectMode = "newTab" THEN "newForegroundTab"
        ELSE "currentTab"
      current == finalDisposition = "currentTab" /\ params.tabId # 0
  IN IF params.platform = "" \/ params.owner = <<>> \/ repoUrl = NullText
       THEN [opens |-> FALSE]
       ELSE [opens |-> TRUE, repoUrl |-> repoUrl, update |-> current,
             store |-> /\ current
                       /\ params.sourceUrl # NullText
                       /\ params.searchRedirectMode = "autoJump",
             active |-> finalDisposition # "newBackgroundTab"]

openRepoUnified(params) ==
  Disposes(params, buildRepoUrl(params.platform, params.owner, params.repo,
                                params.path))

\* a tab navigation: chrome.tabs.update of a tab, or chrome.tabs.create
\* (tab 0) of an active or a background tab; listed tells that the URL of
\* the event was on the bypass list, guard which calls of the redirect
\* guard the handler made before
Nav(by, params, o, listed, guard) ==
  [by |-> by, tab |-> IF o.update THEN params.tabId ELSE 0,
   active |-> o.active, guard |-> guard,
   platform |-> params.platform, owner |-> params.owner,
   repo |-> params.repo, url |-> o.repoUrl, at |-> now,
   source |-> params.sourceUrl, listed |-> listed]

Navigates(st, nav) ==
  [st EXCEPT !.navs = Append(@, [nav EXCEPT !.at = now]),
             !.page = IF nav.tab = 0 THEN @
                      ELSE [@ EXCEPT ![nav.tab] = "other"]]

\* what await chrome.storage.local.set can come to: the record is written
\* (TRUE), or the call is rejected and the handler ends there (FALSE)
WriteOutcomes(o) == IF o.opens /\ o.store THEN BOOLEAN ELSE {TRUE}

\* openRepoUnified opening a URL a second time when it has stored nothing
Opens_retries(st, n, by, params, o, listed, written) ==
  IF ~o.opens THEN st
  ELSE IF o.store /\ ~written THEN st
  ELSE IF o.store
    THEN [st EXCEPT
            !.local.repo_source[params.tabId] =
               [url |-> params.sourceUrl,
                platform |-> PLATFORMS[params.platform].name,
                timestamp |-> now],
            !.procs = @ \cup {[n |-> n, kind |-> by, pc |-> "update",
                               nav |-> Nav(by, params, o, listed, st.guard)]}]
    ELSE Navigates(Navigates(st, Nav(by, params, o, listed, st.guard)),
                   Nav(by, params, o, listed, st.guard))

\* the effects of openRepoUnified, called by handler n, that decided o,
\* when its write, if it makes one, comes to written
Opens(st, n, by, params, o, listed, written) ==
  IF ~o.opens THEN st
  ELSE IF o.store /\ ~written THEN st
  ELSE IF o.store
    THEN [st EXCEPT
            !.local.repo_source[params.tabId] =
               [url |-> params.sourceUrl,
                platform |-> PLATFORMS[params.platform].name,
                timestamp |-> now],
            !.procs = @ \cup {[n |-> n, kind |-> by, pc |-> "update",
                               nav |-> Nav(by, params, o, listed, st.guard)]}]
    ELSE Navigates(st, Nav(by, params, o, listed, st.guard))

Params(tg, tabId, sourceUrl, searchRedirectMode) ==
  [platform |-> tg.platform, owner |-> tg.owner, repo |-> tg.repo,
   path |-> tg.path, tabId |-> tabId, sourceUrl |-> sourceUrl,
   disposition |-> "", searchRedirectMode |-> searchRedirectMode]

\* the URL is on the bypass list as it is stored now
Listed(u) == shouldBypass(Href(u), getBypassPatterns)

\* a storage call the browser rejects: the awaiting handler throws
Rejected == [rejected |-> TRUE]

\* which storage call of an event is rejected, if any: the read of the
\* feature toggles, the read of the bypass list, or the write to
\* chrome.storage.local; the handler does not get past a rejected call
Rejections == {"none", "toggles", "bypass", "write"}

\* the handler of a navigation event up to its first await, the read of
\* the feature toggles
AwaitsToggles(kind, details, fails) ==
  procs' = procs \cup {[n |-> NewProc, kind |-> kind, pc |-> "toggles",
                         tab |-> details.tab, url |-> details.url,
                         features |-> IF fails = "toggles" THEN Rejected
                                      ELSE getFeatureToggles,
                         fails |-> fails,
                         listed |-> Listed(details.url)]}

\* webNavigation.onBeforeNavigate of the main frame, up to its first await
onBeforeNavigate ==
  /\ events < MaxEvents
  /\ procs = {}
  /\ \E details \in SearchEvents :
       /\ AwaitsToggles("search", details, "none")
       /\ page' = [page EXCEPT ![details.tab] = "loading"]
  /\ events' = events + 1
  /\ UNCHANGED <<DEFAULT_PLATFORM, guardVars, settingVars, local,
                 historyVars>>

\* onBeforeNavigate recording the jump before it looks at the mode
SearchJumps_recordsFirst(p, parsed) ==
  \E q \in {Asks(Resumed(p), parsed)} :
    IF q.recent THEN Becomes(q.st)
    ELSE IF p.features.searchRedirectMode = "tabJump"
      THEN IF p.fails = "write" THEN Becomes(Records(q.st, parsed))
           ELSE Becomes([Records(q.st, parsed)
                           EXCEPT !.local.search_jump[p.tab] =
                      [platform |-> parsed.platform, owner |-> parsed.owner,
                       repo |-> parsed.repo, path |-> parsed.path,
                       timestamp |-> now]])
    ELSE \E params \in {Params(parsed, p.tab, Href(p.url),
                               p.features.searchRedirectMode)} :
         \E o \in {openRepoUnified(params)} :
           Becomes(Opens(Records(q.st, parsed), p.n, "search", params, o,
                         p.listed /\ Listed(p.url), p.fails # "write"))

\* onBeforeNavigate from the guard on, for the target the query parsed to
SearchJumps(p, parsed) ==
  \E q \in {Asks(Resumed(p), parsed)} :
    IF q.recent THEN Becomes(q.st)
    ELSE IF p.features.searchRedirectMode = "tabJump"
      THEN IF p.fails = "write" THEN Becomes(q.st)
           ELSE Becomes([q.st EXCEPT !.local.search_jump[p.tab] =
                      [platform |-> parsed.platform, owner |-> parsed.owner,
                       repo |-> parsed.repo, path |-> parsed.path,
                       timestamp |-> now]])
    ELSE \E params \in {Params(parsed, p.tab, Href(p.url),
                               p.features.searchRedirectMode)} :
         \E o \in {openRepoUnified(params)} :
           Becomes(Opens(Records(q.st, parsed), p.n, "search", params, o,
                         p.listed /\ Listed(p.url), p.fails # "write"))

\* onBeforeNavigate after await getFeatureToggles()
SearchResumes ==
  \E p \in procs :
    /\ p.kind = "search" /\ p.pc = "toggles"
    /\ \E searchQuery \in {extractSearchQuery(p.url)} :
       \E parsed \in {IF searchQuery = NullText THEN NullTarget
                      ELSE parseSearchQuery(searchQuery)} :
         IF /\ p.features # Rejected
            /\ p.features.featureSearchRedirect
            /\ isPossibleSearchEngine(p.url)
            /\ searchQuery # NullText
            /\ parsed # NullTarget
           THEN SearchJumps(p, parsed)
           ELSE Becomes(Resumed(p))
    /\ UNCHANGED <<DEFAULT_PLATFORM, now, settingVars, events, lastRecord,
                   asked, call, built>>

\* webNavigation.onErrorOccurred of the main frame with
\* net::ERR_NAME_NOT_RESOLVED, up to its first await
onErrorOccurred ==
  /\ events < MaxEvents
  /\ procs = {}
  /\ \E details \in TypedEvents :
       /\ AwaitsToggles("dns", details, "none")
       /\ page' = [page EXCEPT ![details.tab] = "other"]
  /\ events' = events + 1
  /\ UNCHANGED <<DEFAULT_PLATFORM, guardVars, settingVars, local,
                 historyVars>>

\* onErrorOccurred after await getFeatureToggles(), up to
\* await getBypassPatterns()
DnsAfterToggles ==
  \E p \in procs :
    /\ p.kind = "dns" /\ p.pc = "toggles"
    /\ procs' =
         IF /\ p.features # Rejected
            /\ p.features.featureDnsIntercept
            /\ findPlatformByDomain(p.url.hostname) = NullKey
           THEN (procs \ {p})
                \cup {[n |-> p.n, kind |-> "dns", pc |-> "bypass",
                       tab |-> p.tab, url |-> p.url,
                       patterns |-> IF p.fails = "bypass" THEN <<>>
                                    ELSE getBypassPatterns,
                       fails |-> p.fails, listed |-> p.listed]}
           ELSE procs \ {p}
    /\ UNCHANGED <<DEFAULT_PLATFORM, guardVars, settingVars, local, page,
                   events, historyVars>>

\* onErrorOccurred from the guard on, for the target the URL parsed to
DnsJumps(p, parsed) ==
  \E q \in {Asks(Resumed(p), parsed)} :
    IF q.recent THEN Becomes(q.st)
    ELSE \E params \in {Params(parsed, p.tab, Href(p.url), "autoJump")} :
         \E o \in {openRepoUnified(params)} :
           Becomes(Opens(Records(q.st, parsed), p.n, "dns", params, o,
                         p.listed /\ Listed(p.url), p.fails # "write"))

\* onErrorOccurred going on with the built-in list when the read of the
\* bypass list is rejected
DnsAfterBypass_failsOpen ==
  \E p \in procs :
    /\ p.kind = "dns" /\ p.pc = "bypass"
    /\ \E parsed \in {parseRepoInput(fullPath(p.url))} :
         IF /\ ~shouldBypass(Href(p.url),
                             IF p.fails = "bypass"
                               THEN DEFAULT_BYPASS_PATTERNS ELSE p.patterns)
            /\ parsed # NullTarget
           THEN DnsJumps(p, parsed)
           ELSE Becomes(Resumed(p))
    /\ UNCHANGED <<DEFAULT_PLATFORM, now, settingVars, events, lastRecord,
                   asked, call, built>>

\* onErrorOccurred after await getBypassPatterns()
DnsAfterBypass ==
  \E p \in procs :
    /\ p.kind = "dns" /\ p.pc = "bypass"
    /\ \E parsed \in {parseRepoInput(fullPath(p.url))} :
         IF /\ p.fails # "bypass"
            /\ ~shouldBypass(Href(p.url), p.patterns)
            /\ parsed # NullTarget
           THEN DnsJumps(p, parsed)
           ELSE Becomes(Resumed(p))
    /\ UNCHANGED <<DEFAULT_PLATFORM, now, settingVars, events, lastRecord,
                   asked, call, built>>

\* the onBeforeRequest listener up to await getBypassPatterns()
AwaitsBypass(details, fails) ==
  procs' =
    IF \/ details.url.hostname = t_github_com
       \/ details.url.hostname = t_www \o t_github_com
      THEN procs
      ELSE procs \cup {[n |-> NewProc, kind |-> "request",
                        pc |-> "bypass", tab |-> details.tab,
                        url |-> details.url,
                        patterns |-> IF fails = "bypass" THEN <<>>
                                     ELSE getBypassPatterns,
                        fails |-> fails,
                        listed |-> Listed(details.url)]}

\* webRequest.onBeforeRequest of a main frame request, up to
\* await getBypassPatterns()
onBeforeRequest ==
  /\ events < MaxEvents
  /\ procs = {}
  /\ \E details \in TypedEvents : AwaitsBypass(details, "none")
  /\ events' = events + 1
  /\ UNCHANGED <<DEFAULT_PLATFORM, guardVars, settingVars, local, page,
                 historyVars>>

\* onBeforeRequest after await getBypassPatterns(): the request is
\* redirected when host and path together read owner/repo
RequestAfterBypass ==
  \E p \in procs :
    /\ p.kind = "request" /\ p.pc = "bypass"
    /\ \E repoMatch \in {REPO_PATTERN(fullPath(p.url))} :
         IF /\ p.fails # "bypass"
            /\ ~shouldBypass(Href(p.url), p.patterns)
            /\ repoMatch.matched
           THEN Becomes(Navigates(Resumed(p),
                  [by |-> "request", tab |-> p.tab, active |-> TRUE,
                   guard |-> <<>>,
                   platform |-> "github",
                   owner |-> repoMatch.owner, repo |-> repoMatch.repo,
                   url |-> t_https \o t_github_com \o <<"/">>
                           \o repoMatch.owner \o <<"/">> \o repoMatch.repo,
                   at |-> now, source |-> Href(p.url),
                   listed |-> p.listed /\ Listed(p.url)]))
           ELSE Becomes(Resumed(p))
    /\ UNCHANGED <<DEFAULT_PLATFORM, now, settingVars, events, lastRecord,
                   asked, call, built>>

\* openRepoUnified after await chrome.storage.local.set: chrome.tabs.update
TabsUpdate ==
  \E p \in procs :
    /\ p.pc = "update"
    /\ Becomes(Navigates(Resumed(p), p.nav))
    /\ UNCHANGED <<DEFAULT_PLATFORM, now, settingVars, events, lastRecord,
                   asked, call, built>>

\* the window in which the search hint is still shown
HintWindowMs == 3000

\* the search hint script starts in a loaded search page
searchHintInit ==
  \E tab \in Tabs :
    /\ page[tab] = "loading"
    /\ LET jumpData == local.search_jump[tab]
       IN IF jumpData = NoItem
            THEN page' = [page EXCEPT ![tab] = "other"] /\ local' = local
          ELSE IF now - jumpData.timestamp > HintWindowMs
            THEN /\ page' = [page EXCEPT ![tab] = "other"]
                 /\ local' = [local EXCEPT !.search_jump[tab] = NoItem]
          ELSE page' = [page EXCEPT ![tab] = "hint"] /\ local' = local
    /\ UNCHANGED <<DEFAULT_PLATFORM, guardVars, settingVars, procs, events,
                   historyVars>>

\* the Tab key is pressed in a page that shows the hint: the keydown
\* listener up to await chrome.storage.local.get
keydown ==
  /\ events < MaxEvents
  /\ \E tab \in Tabs :
       /\ page[tab] = "hint"
       /\ procs' = procs \cup {[n |-> NewProc, kind |-> "keydown",
                                pc |-> "get", tab |-> tab,
                                data |-> local.search_jump[tab]]}
  /\ events' = events + 1
  /\ UNCHANGED <<DEFAULT_PLATFORM, guardVars, settingVars, local, page,
                 historyVars>>

\* the keydown listener after the get: the stored jump is removed and
\* sent to the background
KeydownResumes ==
  \E p \in procs :
    /\ p.kind = "keydown" /\ p.pc = "get"
    /\ IF p.data = NoItem
         THEN procs' = procs \ {p} /\ local' = local
         ELSE /\ local' = [local EXCEPT !.search_jump[p.tab] = NoItem]
              /\ procs' = (procs \ {p})
                          \cup {[n |-> p.n, kind |-> "message", pc |-> "sent",
                                 tab |-> p.tab, data |-> p.data]}
    /\ UNCHANGED <<DEFAULT_PLATFORM, guardVars, settingVars, page, events,
                   historyVars>>

\* runtime.onMessage with action executeSearchJump
onMessage ==
  \E p \in procs :
    /\ p.kind = "message" /\ p.pc = "sent"
    /\ \E params \in {Params(p.data, p.tab, NullText, "")} :
       \E o \in {openRepoUnified(params)} :
         Becomes(Opens(Records(Resumed(p), p.data), p.n, "message", params,
                       o, FALSE, TRUE))
    /\ UNCHANGED <<DEFAULT_PLATFORM, now, settingVars, events, lastRecord,
                   asked, call, built>>

\* ------------------------------------------------------------------------
\* openRepoUnified called with every combination of arguments
\* ------------------------------------------------------------------------

\* the arguments: a platform of the registry, an unknown one and none; an
\* owner and none; a tab id and none (0); a source URL and none; each
\* disposition of the omnibox and none; each mode and none
OpenPlatforms == {"github", "npm", "nope", ""}
OpenOwners == {x_o, <<>>}
OpenTabIds == Tabs \cup {0}
OpenSources == {Href(u_search_repo), NullText}
Dispositions == {"currentTab", "newForegroundTab", "newBackgroundTab"}
OpenModes == SearchRedirectModes \cup {""}

OpenParams ==
  {[platform |-> k, owner |-> o, repo |-> x_r, path |-> x_issues_5,
    tabId |-> t, sourceUrl |-> u, disposition |-> d,
    searchRedirectMode |-> m] :
     k \in OpenPlatforms, o \in OpenOwners, t \in OpenTabIds,
     u \in OpenSources, d \in Dispositions \cup {""}, m \in OpenModes}

\* one call of openRepoUnified, up to its await or to its end
CallOpenRepoUnified ==
  /\ call = NoCall
  /\ \E params \in OpenParams :
     \E o \in {openRepoUnified(params)} :
     \E written \in WriteOutcomes(o) :
       /\ Becomes(Opens(Resumed([n |-> 0]), NewProc, "open", params, o,
                        FALSE, written))
       /\ call' = [fn |-> "openRepoUnified", params |-> params,
                   result |-> IF o.opens THEN o.repoUrl ELSE NullText,
                   written |-> written]
  /\ UNCHANGED <<DEFAULT_PLATFORM, now, settingVars, events, lastRecord,
                 asked, built>>

OpenInit ==
  /\ DEFAULT_PLATFORM = "github"
  /\ now = TickMs
  /\ recentJumps = <<>>
  /\ timers = {}
  /\ sync = InstalledSettings
  /\ Quiet
  /\ lastRecord = <<>>
  /\ asked = NeverAsked
  /\ call = NoCall

OpenNext == CallOpenRepoUnified \/ TabsUpdate

SpecOpen == OpenInit /\ [][OpenNext]_vars

SystemInit ==
  /\ DEFAULT_PLATFORM = "github"
  /\ now = TickMs
  /\ recentJumps = <<>>
  /\ timers = {}
  /\ sync = InstalledSettings
  /\ Quiet
  /\ lastRecord = <<>>
  /\ asked = NeverAsked
  /\ call = NoCall

Next ==
  \/ saveDefaultPlatform
  \/ saveFeatureToggles
  \/ saveSearchRedirectMode
  \/ addPattern
  \/ deletePattern
  \/ StorageChanged
  \/ onBeforeNavigate
  \/ SearchResumes
  \/ onErrorOccurred
  \/ DnsAfterToggles
  \/ DnsAfterBypass
  \/ onBeforeRequest
  \/ RequestAfterBypass
  \/ TabsUpdate
  \/ searchHintInit
  \/ keydown
  \/ KeydownResumes
  \/ onMessage
  \/ TimerFires
  \/ Tick

Spec == SystemInit /\ [][Next]_vars

\* ------------------------------------------------------------------------
\* Every kind of event, with storage calls that may be rejected
\* ------------------------------------------------------------------------

\* how many events a behaviour of this part has
MaxInputs == 2

t_npmjs_com == <<"w","w","w",".","n","p","m","j","s",".","c","o","m">>
t_gitlab_com == <<"w","w","w",".","g","i","t","l","a","b",".","c","o","m">>
x_unknown_url == x_example_com \o <<"/">> \o x_owner \o <<"/">> \o x_repo

\* searches for microsoft/vscode on the search page of a platform the
\* search handler does not list and of one it lists, and a search for the
\* URL of a host that is no platform
u_search_platform ==
  Url(t_https, t_npmjs_com, t_search,
      <<Param(<<"q">>, x_microsoft \o <<"/">> \o x_vscode)>>)
u_search_github ==
  Url(t_https, t_github_com, t_search,
      <<Param(<<"q">>, x_microsoft \o <<"/">> \o x_vscode)>>)
u_search_unknown ==
  Url(t_https, t_google_com, t_search, <<Param(<<"q">>, x_unknown_url)>>)

\* typed addresses: on the domain of a platform, and with a host that is
\* no platform
u_typed_platform == Url(t_http, t_gitlab_com, <<"/">> \o x_o \o <<"/">> \o x_r, <<>>)
u_typed_unknown ==
  Url(t_http, x_example_com, <<"/">> \o x_owner \o <<"/">> \o x_repo, <<>>)

AnySearchEvents ==
  {Event(1, u) : u \in {u_search_repo, u_search_platform, u_search_github,
                        u_search_unknown}}
AnyTypedEvents ==
  {Event(2, u) : u \in {u_typed_repo, u_typed_platform, u_typed_unknown}}

\* the texts entered after the omnibox keyword, in the selected tab
OmniboxEvents ==
  {[tab |-> 1, text |-> t, disposition |-> d] :
     t \in {x_o \o <<"/">> \o x_r, x_unknown_url,
            x_microsoft \o <<"/">> \o x_vscode \o x_issues_5},
     d \in {"currentTab", "newBackgroundTab"}}

\* the toggle the options page offers for each kind of event
ToggleOf(kind) ==
  IF kind = "search" THEN "featureSearchRedirect"
  ELSE IF kind = "omnibox" THEN "featureOmnibox"
  ELSE "featureDnsIntercept"

\* history: the event that has just arrived: its kind, the text its
\* handler resolves, its host, the storage call that will be rejected and
\* whether its toggle is stored as false
Arrives(kind, input, host, fails) ==
  call' = [fn |-> "event", n |-> events + 1, kind |-> kind, input |-> input,
           host |-> host, fails |-> fails, off |-> ~sync[ToggleOf(kind)]]

\* webNavigation.onBeforeNavigate for any of the search pages
onBeforeNavigate_any ==
  /\ events < MaxInputs
  /\ procs = {}
  /\ \E details \in AnySearchEvents, fails \in {"none", "toggles", "write"} :
       /\ AwaitsToggles("search", details, fails)
       /\ page' = [page EXCEPT ![details.tab] = "loading"]
       /\ Arrives("search", extractSearchQuery(details.url),
                  details.url.hostname, fails)
  /\ events' = events + 1
  /\ UNCHANGED <<DEFAULT_PLATFORM, guardVars, settingVars, local, navs,
                 lastRecord, asked, built>>

\* webNavigation.onErrorOccurred for any of the typed addresses
onErrorOccurred_any ==
  /\ events < MaxInputs
  /\ procs = {}
  /\ \E details \in AnyTypedEvents, fails \in Rejections :
       /\ AwaitsToggles("dns", details, fails)
       /\ page' = [page EXCEPT ![details.tab] = "other"]
       /\ Arrives("dns", fullPath(details.url), details.url.hostname, fails)
  /\ events' = events + 1
  /\ UNCHANGED <<DEFAULT_PLATFORM, guardVars, settingVars, local, navs,
                 lastRecord, asked, built>>

\* webRequest.onBeforeRequest for any of the typed addresses
onBeforeRequest_any ==
  /\ events < MaxInputs
  /\ procs = {}
  /\ \E details \in AnyTypedEvents, fails \in {"none", "bypass"} :
       /\ AwaitsBypass(details, fails)
       /\ Arrives("request", fullPath(details.url), details.url.hostname,
                  fails)
  /\ events' = events + 1
  /\ UNCHANGED <<DEFAULT_PLATFORM, guardVars, settingVars, local, page, navs,
                 lastRecord, asked, built>>

\* omnibox.onInputEntered up to await getFeatureToggles()
onInputEntered ==
  /\ events < MaxInputs
  /\ procs = {}
  /\ \E entered \in OmniboxEvents, fails \in {"none", "toggles"} :
       /\ procs' = procs \cup {[n |-> NewProc, kind |-> "omnibox",
                                pc |-> "toggles", tab |-> entered.tab,
                                text |-> entered.text,
                                disposition |-> entered.disposition,
                                features |-> IF fails = "toggles"
                                               THEN Rejected
                                               ELSE getFeatureToggles,
                                fails |-> fails]}
       /\ Arrives("omnibox", entered.text, <<>>, fails)
  /\ events' = events + 1
  /\ UNCHANGED <<DEFAULT_PLATFORM, guardVars, settingVars, local, page, navs,
                 lastRecord, asked, built>>

\* openUrl: the tab navigation of the omnibox
openUrl(p, opened) ==
  [by |-> "omnibox",
   tab |-> IF p.disposition = "currentTab" THEN p.tab ELSE 0,
   active |-> p.disposition # "newBackgroundTab", guard |-> <<>>,
   platform |-> opened.platform, owner |-> opened.owner,
   repo |-> opened.repo, url |-> opened.url, at |-> now,
   source |-> NullText, listed |-> FALSE]

\* omnibox.onInputEntered after await getFeatureToggles()
InputEnteredResumes ==
  \E p \in procs :
    /\ p.kind = "omnibox" /\ p.pc = "toggles"
    /\ \E enabled \in {p.features # Rejected /\ p.features.featureOmnibox} :
       \E opened \in {omniboxEntered(p.text)} :
         IF enabled /\ opened.url # NullText
           THEN Becomes(Navigates(Resumed(p), openUrl(p, opened)))
           ELSE Becomes(Resumed(p))
    /\ UNCHANGED <<DEFAULT_PLATFORM, now, settingVars, events, lastRecord,
                   asked, call, built>>

EventsNext ==
  \/ saveFeatureToggles
  \/ saveSearchRedirectMode
  \/ onBeforeNavigate_any
  \/ SearchResumes
  \/ onErrorOccurred_any
  \/ DnsAfterToggles
  \/ DnsAfterBypass
  \/ onBeforeRequest_any
  \/ RequestAfterBypass
  \/ onInputEntered
  \/ InputEnteredResumes
  \/ TabsUpdate

SpecEvents == SystemInit /\ [][EventsNext]_vars

\* ------------------------------------------------------------------------
\* The default platform across saved settings and restarts of the worker
\* ------------------------------------------------------------------------

\* the browser stops the idle service worker and evaluates the script
\* again for the next event: the module's variables start over, the
\* timers and the suspended handlers of the worker are gone; the stores
\* and the events not yet delivered stay
WorkerRestarts ==
  /\ DEFAULT_PLATFORM' = "github"
  /\ recentJumps' = <<>>
  /\ timers' = {}
  /\ procs' = {p \in procs : p.kind \in {"keydown", "message"}}
  /\ UNCHANGED <<now, settingVars, local, page, events, historyVars>>

\* runtime.onInstalled when the extension or the browser is updated:
\* loadDefaultPlatform up to the callback of chrome.storage.sync.get
onInstalled ==
  /\ ~\E p \in procs : p.kind = "load"
  /\ procs' = procs \cup {[n |-> NewProc, kind |-> "load", pc |-> "get",
                           value |-> sync.defaultPlatform]}
  /\ UNCHANGED <<DEFAULT_PLATFORM, guardVars, settingVars, local, page,
                 events, historyVars>>

\* the callback of loadDefaultPlatform
loadDefaultPlatform ==
  \E p \in procs :
    /\ p.kind = "load"
    /\ DEFAULT_PLATFORM' = IF p.value \in Platforms THEN p.value
                           ELSE DEFAULT_PLATFORM
    /\ procs' = procs \ {p}
    /\ UNCHANGED <<guardVars, settingVars, local, page, events, historyVars>>

\* the owner/repo inputs resolved between the changes
RequestShapes ==
  {Shape(<<>>, <<>>, <<>>, <<>>, x_microsoft, x_vscode, <<>>, <<>>),
   Shape(<<>>, <<>>, <<>>, <<>>, x_o, x_r, <<>>, <<>>)}

\* parseRepoInput called for a request, with what the settings store
\* holds at that moment and whether the worker has been told all of it
ResolveRequest ==
  /\ \E sh \in RequestShapes :
       call' = [fn |-> "parseRepoInput", shape |-> sh, arg |-> TextOf(sh),
                res |-> parseRepoInput(TextOf(sh)),
                stored |-> sync.defaultPlatform,
                settled |-> changes = <<>> /\ procs = {}]
  /\ UNCHANGED <<DEFAULT_PLATFORM, guardVars, settingVars, browserVars, navs,
                 lastRecord, asked, built>>

DefaultNext ==
  \/ saveDefaultPlatform
  \/ StorageChanged
  \/ WorkerRestarts
  \/ onInstalled
  \/ loadDefaultPlatform
  \/ ResolveRequest

SpecDefault == SystemInit /\ [][DefaultNext]_vars

\* ------------------------------------------------------------------------
\* Properties of the resolver
\* ------------------------------------------------------------------------

EndsWith(s, t) == Len(t) <= Len(s) /\ Drop(s, Len(s) - Len(t)) = t

\* owner[/repo][path] of a target
IdentifierOf(target) ==
  target.owner
  \o (IF target.repo = <<>> THEN <<>> ELSE <<"/">> \o target.repo)
  \o target.path

\* a query of two words of which exactly one, the first or the last, is a
\* platform keyword and the other is a name or owner/repo[/path]
OneKeywordQuery(sh) ==
  /\ sh.host = <<>>
  /\ (sh.lead = <<>>) # (sh.trail = <<>>)

KeywordOf(sh) == IF sh.lead # <<>> THEN sh.lead ELSE sh.trail

t_npm_react_url ==
  <<"h","t","t","p","s",":","/","/","w","w","w",".","n","p","m","j","s",".",
    "c","o","m","/","p","a","c","k","a","g","e","/","r","e","a","c","t">>

\* C1: when recordJump was called for a key at time T and not again since,
\* isRecentJump for that key answers true at every time strictly between T
\* and T + 5 s, and false at every time from T + 5 s on.
C1_GuardWindow ==
  (asked.asked /\ asked.recorded) =>
    /\ (asked.recordedAt < asked.at /\ asked.at < asked.recordedAt + 5000)
         => asked.result
    /\ asked.at >= asked.recordedAt + 5000 => ~asked.result

C1_Witness ==
  /\ asked.asked /\ asked.recorded
  /\ asked.at = asked.recordedAt + 5000
  /\ ~asked.result

\* C4: a two-word search query with exactly one platform keyword, first or
\* last, resolves to a target on that keyword's platform whose identifier
\* is the other word; "npm react" and "react npm" resolve to
\* {npm, react, "", ""}, which builds https://www.npmjs.com/package/react.
C4_KeywordPrecedence ==
  (call.fn = "parseSearchQuery" /\ OneKeywordQuery(call.shape)) =>
    /\ call.res # NullTarget
    /\ call.res.platform = findPlatformByKeyword(KeywordOf(call.shape))
    /\ IdentifierOf(call.res)
         = TextOf([[call.shape EXCEPT !.lead = <<>>] EXCEPT !.trail = <<>>])
    /\ (ToLower(KeywordOf(call.shape)) = <<"n","p","m">>
          /\ call.shape.owner = x_react /\ call.shape.repo = <<>>) =>
         /\ call.res = Target("npm", x_react, <<>>, <<>>)
         /\ buildRepoUrl("npm", call.res.owner, call.res.repo, call.res.path)
              = t_npm_react_url

\* C5: every target that parseRepoInput, parseSearchQuery or the omnibox
\* enter handler produces for a singleName platform has an empty repo.
C5_SingleNameRepoEmpty ==
  /\ (call.fn \in {"parseRepoInput", "parseSearchQuery"}
        /\ call.res # NullTarget /\ PLATFORMS[call.res.platform].singleName)
       => call.res.repo = <<>>
  /\ (call.fn = "omniboxEntered" /\ call.res.kind = "repo"
        /\ call.res.url # NullText /\ PLATFORMS[call.res.platform].singleName)
       => call.res.repo = <<>>

\* C6: findPlatformByDomain applied to the domain of a platform returns
\* the key of that platform.
C6_DomainRoundTrip ==
  call.fn = "findPlatformByDomain" =>
    \A k \in Platforms : call.arg = PLATFORMS[k].domain => call.res = k

C6_Witness ==
  /\ call.fn = "findPlatformByDomain"
  /\ call.arg = PLATFORMS["zerocat"].domain
  /\ call.res = "zerocat"

\* C7 as stated: for every platform the URL built from owner "o", repo "r"
\* and an empty path contains "o" and contains "r".
C7_TemplateCarriesBoth ==
  (call.fn = "buildRepoUrl" /\ call.platform \in Platforms
     /\ call.owner = x_o /\ call.repo = x_r /\ call.path = <<>>) =>
    /\ Includes(call.res, x_o)
    /\ Includes(call.res, x_r)

\* C7 amended: the URL built for a platform whose singleName flag is false
\* contains the supplied owner and the supplied repo and ends with
\* owner/repo; the URL built for a singleName platform ends with /owner,
\* the repo is not inserted.
C7_TemplateCarriesFields ==
  (call.fn = "buildRepoUrl" /\ call.platform \in Platforms
     /\ call.path = <<>>) =>
    IF PLATFORMS[call.platform].singleName
      THEN /\ Includes(call.res, call.owner)
           /\ EndsWith(call.res, <<"/">> \o call.owner)
      ELSE /\ Includes(call.res, call.owner)
           /\ Includes(call.res, call.repo)
           /\ EndsWith(call.res, <<"/">> \o call.owner \o <<"/">> \o call.repo)

C7_Witness ==
  /\ call.fn = "buildRepoUrl"
  /\ call.platform = "npm" /\ call.owner = x_o /\ call.repo = x_r
  /\ call.path = <<>>
  /\ ~Includes(call.res, x_r)

BareShape(sh) ==
  /\ sh.lead = <<>> /\ sh.trail = <<>>
  /\ sh.scheme = <<>> /\ sh.www = <<>> /\ sh.host = <<>>
  /\ sh.path = <<>>

\* C8: parseRepoInput resolves every owner/repo with a valid owner and a
\* valid repo to {default platform, owner, repo, ""}; when the default
\* platform is github the URL built is https://github.com/owner/repo.
C8_BareOwnerRepo ==
  (call.fn = "parseRepoInput" /\ BareShape(call.shape)
     /\ call.shape.owner \in ValidOwners /\ call.shape.repo \in ValidRepos) =>
    /\ call.res = Target(DEFAULT_PLATFORM, call.shape.owner, call.shape.repo,
                         <<>>)
    /\ DEFAULT_PLATFORM = "github" =>
         buildRepoUrl(call.res.platform, call.res.owner, call.res.repo,
                      call.res.path)
           = t_https \o <<"g","i","t","h","u","b",".","c","o","m","/">>
               \o call.shape.owner \o <<"/">> \o call.shape.repo

C8_Witness ==
  /\ call.fn = "parseRepoInput"
  /\ call.arg = x_microsoft \o <<"/">> \o x_vscode
  /\ DEFAULT_PLATFORM = "gitlab"
  /\ call.res = Target("gitlab", x_microsoft, x_vscode, <<>>)

\* C9: parseRepoInput resolves [http(s)://][www.]<domain of P>/owner/repo
\* [path] to {P, owner, repo, path} for every platform P, whatever the
\* default platform is.
C9_FullUrl ==
  (call.fn = "parseRepoInput" /\ call.shape.lead = <<>>
     /\ call.shape.trail = <<>>
     /\ call.shape.owner \in ValidOwners /\ call.shape.repo \in ValidRepos
     /\ call.shape.path \in ValidPaths) =>
    \A k \in Platforms :
      call.shape.host = PLATFORMS[k].domain =>
        call.res = Target(k, call.shape.owner, call.shape.repo,
                          call.shape.path)

C9_Witness ==
  /\ call.fn = "parseRepoInput"
  /\ call.shape.scheme = t_https /\ call.shape.www = t_www
  /\ call.shape.host = PLATFORMS["docker"].domain
  /\ call.shape.path = x_issues_5
  /\ DEFAULT_PLATFORM = "gitee"
  /\ call.res = Target("docker", x_o, x_r, x_issues_5)

\* C10: buildRepoUrl is a pure function of its four arguments: whatever
\* happens between two calls (the default platform changes, guard records
\* are made, settings are saved, other calls are made), equal arguments
\* give equal URLs, and a call leaves every part of the program's state as
\* it was.
C10_BuilderIsPure ==
  /\ [](\A a \in DOMAIN built : Cardinality(built[a]) = 1)
  /\ [][built' # built =>
         UNCHANGED <<DEFAULT_PLATFORM, guardVars, settingVars, browserVars>>]_vars

\* the same arguments were built under two default platforms, after a
\* guard record and a saved setting
C10_Witness ==
  /\ DOMAIN built = BuildCalls
  /\ DEFAULT_PLATFORM = "gitee"
  /\ saved > 0
  /\ recentJumps # <<>>
  /\ built[Target("nope", x_o, x_r, <<>>)] = {NullText}
  /\ built[Target("npm", x_o, x_r, x_issues_5)] # {NullText}

\* ------------------------------------------------------------------------
\* Properties of the redirects
\* ------------------------------------------------------------------------

\* the handlers the redirect guard is meant for
GuardedHandlers == {"search", "dns", "message"}

\* C2: the extension never issues two tab navigations to the same
\* (platform, owner, repo) target less than 5 s apart, over any sequence
\* of search navigations, DNS errors and executeSearchJump messages in any
\* tabs.
C2_AtMostOnce ==
  \A i, j \in DOMAIN navs :
    (/\ i < j
     /\ navs[i].by \in GuardedHandlers /\ navs[j].by \in GuardedHandlers
     /\ navs[i].platform = navs[j].platform
     /\ navs[i].owner = navs[j].owner
     /\ navs[i].repo = navs[j].repo)
      => navs[j].at - navs[i].at >= RecentWindowMs

\* C3: no handler redirects an event whose URL contains an entry of the
\* bypass list (the built-in localhost or a stored custom pattern),
\* whatever the URL or its query resolves to.
C3_BypassList ==
  \A i \in DOMAIN navs :
    navs[i].by \in {"search", "dns", "request"} => ~navs[i].listed

\* ------------------------------------------------------------------------
\* Properties of owner/repo/path inputs
\* ------------------------------------------------------------------------

\* the text is the domain of a platform, or a host below it ("www." and
\* other subdomains)
PlatformHost(host) ==
  \E k \in Platforms :
    \/ ToLower(host) = PLATFORMS[k].domain
    \/ EndsWith(ToLower(host), <<".">> \o PLATFORMS[k].domain)

\* C19: for every input seg1/seg2/rest with a valid owner seg1 that is
\* no platform's domain or subdomain and a valid repo seg2, parseRepoInput
\* returns {default platform, seg1, seg2, "/rest"}.
C19_PathBindsDefault ==
  (/\ call.fn = "parseRepoInput"
   /\ BareShape([call.shape EXCEPT !.path = <<>>])
   /\ call.shape.path # <<>>
   /\ call.shape.owner \in ValidOwners /\ call.shape.repo \in ValidRepos
   /\ ~PlatformHost(call.shape.owner)) =>
    call.res = Target(DEFAULT_PLATFORM, call.shape.owner, call.shape.repo,
                      call.shape.path)

\* ------------------------------------------------------------------------
\* Properties of the dispatcher
\* ------------------------------------------------------------------------

\* the call of openRepoUnified has run to its end
OpenDone == call.fn = "openRepoUnified" /\ procs = {}

\* the disposition openRepoUnified is to use: the explicit one, else the
\* one of the mode
Disposition(params) ==
  IF params.disposition # "" THEN params.disposition
  ELSE IF params.searchRedirectMode = "newTab" THEN "newForegroundTab"
  ELSE "currentTab"

\* the navigation replaces the content of the tab the call names
ReplacesTab(nav, params) == params.tabId # 0 /\ nav.tab = params.tabId
\* the navigation creates a tab, in the foreground or in the background
CreatesTab(nav, active) == nav.tab = 0 /\ nav.active = active

\* C11 as stated: openRepoUnified uses the explicit disposition when one
\* is passed; otherwise it opens a new foreground tab in newTab mode and
\* replaces the content of the current tab, creating none, in every other
\* mode and without a mode.
C11_Disposition ==
  (OpenDone /\ navs # <<>>) =>
    LET nav == navs[1]
        d == Disposition(call.params)
    IN /\ d = "currentTab" => nav.tab # 0
       /\ d = "newForegroundTab" => CreatesTab(nav, TRUE)
       /\ d = "newBackgroundTab" => CreatesTab(nav, FALSE)

\* C11 amended: a currentTab disposition replaces the content of the tab
\* whose id is passed, and opens a new foreground tab when no tab id is
\* passed.
C11_DispositionWithTab ==
  (OpenDone /\ navs # <<>>) =>
    LET nav == navs[1]
        d == Disposition(call.params)
    IN /\ (d = "currentTab" /\ call.params.tabId # 0) =>
            ReplacesTab(nav, call.params)
       /\ (d = "currentTab" /\ call.params.tabId = 0) => CreatesTab(nav, TRUE)
       /\ d = "newForegroundTab" => CreatesTab(nav, TRUE)
       /\ d = "newBackgroundTab" => CreatesTab(nav, FALSE)

\* an explicit background disposition wins over newTab mode
C11_Witness ==
  /\ OpenDone
  /\ call.params.disposition = "newBackgroundTab"
  /\ call.params.searchRedirectMode = "newTab"
  /\ call.params.tabId = 1
  /\ Len(navs) = 1 /\ navs[1].tab = 0 /\ ~navs[1].active

\* the provenance record of the call, as it is stored
SourceRecord(params) ==
  [url |-> params.sourceUrl, platform |-> PLATFORMS[params.platform].name,
   timestamp |-> now]

\* the conditions under which the claim has the record written
SourceDue(nav, params) ==
  /\ ReplacesTab(nav, params)
  /\ params.sourceUrl # NullText
  /\ params.searchRedirectMode = "autoJump"

\* C12: openRepoUnified writes repo_source_<tabId> = {sourceUrl, platform,
\* timestamp} if and only if it replaces the current tab, a sourceUrl is
\* present and the mode is exactly autoJump; the record is in the store
\* before the tab navigation is issued.
C12_Provenance ==
  /\ [](OpenDone =>
         /\ (\E t \in Tabs : local.repo_source[t] # NoItem)
              <=> (navs # <<>> /\ SourceDue(navs[1], call.params))
         /\ \A t \in Tabs :
              local.repo_source[t] # NoItem =>
                /\ t = call.params.tabId
                /\ local.repo_source[t] = SourceRecord(call.params))
  /\ [][(/\ Len(navs') > Len(navs)
         /\ call'.fn = "openRepoUnified"
         /\ SourceDue(navs'[Len(navs')], call'.params))
          => local.repo_source[call'.params.tabId] = SourceRecord(call'.params)
       ]_vars

\* a jump in autoJump mode with the explicit currentTab disposition in
\* tab 2, with the record stored
C12_Witness ==
  /\ OpenDone
  /\ call.params.platform = "github"
  /\ call.params.tabId = 2
  /\ call.params.disposition = "currentTab"
  /\ call.params.searchRedirectMode = "autoJump"
  /\ local.repo_source[2] = SourceRecord(call.params)
  /\ Len(navs) = 1 /\ navs[1].tab = 2

\* C13 as stated: every invocation of openRepoUnified issues exactly one
\* tab navigation call, for every argument combination.
C13_OneNavigation == OpenDone => Len(navs) = 1

\* C13 amended: an invocation with a platform of the registry and an
\* owner issues exactly one tab navigation call, never a second one,
\* unless its write of the provenance record is rejected; every other
\* invocation issues none.
C13_OneNavigationOrNone ==
  /\ Len(navs) <= 1
  /\ OpenDone =>
       Len(navs) = IF /\ call.params.platform \in Platforms
                      /\ call.params.owner # <<>>
                      /\ call.written
                     THEN 1 ELSE 0

\* the one navigation of a call that first awaited its write
C13_Witness ==
  /\ OpenDone
  /\ call.params.platform = "npm"
  /\ call.params.disposition = ""
  /\ call.params.searchRedirectMode = "autoJump"
  /\ call.params.sourceUrl # NullText
  /\ call.params.tabId = 1
  /\ Len(navs) = 1 /\ navs[1].tab = 1

\* ------------------------------------------------------------------------
\* Properties of the default platform
\* ------------------------------------------------------------------------

\* C18: after any sequence of settings changes and restarts of the
\* background worker, the platform parseRepoInput binds to an owner/repo
\* input is the defaultPlatform the settings store holds at that moment,
\* whenever that value is a registry key (stated here for the requests
\* made when every change has been delivered to the worker).
C18_DefaultIsCurrent ==
  (/\ call.fn = "parseRepoInput"
   /\ call.stored \in Platforms
   /\ call.settled) =>
    call.res.platform = call.stored

\* ------------------------------------------------------------------------
\* Properties of the order of a redirect
\* ------------------------------------------------------------------------

\* C16: every tab navigation a handler issues for an event is preceded,
\* in the handling of that event, by a call of isRecentJump for the target
\* that returned false and then by recordJump for the target; after an
\* isRecentJump that returned true the handler navigates nowhere.
C16_DecisionOrder ==
  \A i \in DOMAIN navs :
    navs[i].by \in GuardedHandlers => navs[i].guard = <<"fresh", "record">>

\* ------------------------------------------------------------------------
\* Properties of the handlers of every kind of event
\* ------------------------------------------------------------------------

\* a step taken while the last event that arrived is being handled
Handling == call.fn = "event" /\ call' = call

\* the step issues no tab navigation or request redirect
NoNavigation == navs' = navs
\* the step leaves the ledger of the redirect guard as it is
NoRecord == recentJumps' = recentJumps /\ timers' = timers
\* the step writes nothing to chrome.storage.local
NoWrite == local' = local

AllToggles == \A f \in FeatureToggles : sync[f]

\* C14: when the read of the feature toggles or of the bypass list is
\* rejected during an event, that event issues no tab navigation and adds
\* no guard record, in the search, DNS error and omnibox handlers.
C14_FailSafeReads ==
  [][(Handling /\ call.fails \in {"toggles", "bypass"})
       => (NoNavigation /\ NoRecord)]_vars

\* a DNS error for microsoft/vscode, with every feature on, has been
\* handled to its end with the read of the bypass list rejected, after an
\* event that did redirect
C14_Witness ==
  /\ call.fn = "event" /\ call.n = 2
  /\ call.kind = "dns" /\ call.fails = "bypass"
  /\ call.input = x_microsoft \o <<"/">> \o x_vscode
  /\ AllToggles
  /\ procs = {}
  /\ Len(navs) = 1 /\ navs[1].by = "omnibox"

\* C15: while its toggle is stored as false, a handler issues no tab
\* navigation or request redirect, writes nothing to storage and leaves
\* the guard ledger unchanged (featureSearchRedirect: the search handler;
\* featureDnsIntercept: the handlers of typed addresses that do not
\* resolve; featureOmnibox: the omnibox handler).
C15_TogglesOff ==
  [][(Handling /\ call.off) => (NoNavigation /\ NoWrite /\ NoRecord)]_vars

\* the host is the domain of a platform, with or without "www."
OnPlatform(host) ==
  \E k \in Platforms :
    host = PLATFORMS[k].domain \/ host = t_www \o PLATFORMS[k].domain

\* C17: a navigation event whose host is the domain of a platform, with
\* or without "www.", ends without a redirect, a guard record or a stored
\* pending jump, in the search, DNS error and web request handlers.
C17_OnPlatform ==
  [][(Handling /\ call.kind \in {"search", "dns", "request"}
        /\ OnPlatform(call.host))
       => (NoNavigation /\ NoRecord /\ NoWrite)]_vars

\* the text reads as a URL whose host is no platform, and as nothing else
UnknownHostUrl(text) ==
  LET trimmed == Trim(text)
      url == FULL_URL_PATTERN(trimmed)
  IN /\ url.matched
     /\ findPlatformByDomain(url.domain) = NullKey
     /\ ~REPO_WITH_PATH_PATTERN(trimmed).matched
     /\ ~REPO_PATTERN(trimmed).matched

\* the URL ends with an empty owner and repo: https://<domain>//
EmptyOwnerUrl(url) == EndsWith(url, <<"/", "/">>)

\* C20: an input that reads as a URL with a host that is no platform
\* makes no handler (omnibox, search, DNS error) open a URL, and no URL
\* with an empty owner segment, such as https://github.com//, is ever
\* opened.
C20_UnresolvableNeverNavigates ==
  /\ [](\A i \in DOMAIN navs : ~EmptyOwnerUrl(navs[i].url))
  /\ [][(Handling /\ call.input # NullText /\ UnknownHostUrl(call.input))
          => NoNavigation]_vars

\* ------------------------------------------------------------------------
\* Properties of the ledger of the redirect guard
\* ------------------------------------------------------------------------

\* the navigation is one to the target the ledger keeps under key
NavOf(nav, key) == JumpKey(nav.platform, nav.owner, nav.repo) = key

\* C21: a record for (platform, owner, repo) is in the ledger only for a
\* redirect that is issued: whenever recordJump has been called for a
\* target, the same event issues a tab navigation to it (it has, or its
\* handler is about to call chrome.tabs.update), also when the write of
\* the provenance record is rejected.
C21_RecordImpliesRedirect ==
  \A key \in DOMAIN recentJumps :
    \/ \E i \in DOMAIN navs : NavOf(navs[i], key)
    \/ \E p \in procs : p.pc = "update" /\ NavOf(p.nav, key)

\* the step runs the callback of timer tm
Fires(tm) == tm \in timers /\ timers' = timers \ {tm}

\* the timer was set by the latest recordJump for its key
LatestTimer(tm) ==
  tm.key \in DOMAIN lastRecord /\ tm.due = lastRecord[tm.key] + PurgeDelayMs

\* C22: an entry of the ledger is removed by the deferred purge of the
\* latest recordJump for its key, 10 s after it, even if isRecentJump is
\* never called: every entry has its purge timer pending, and that timer
\* removes the entry when it runs; a timer left over from an earlier
\* recordJump of the key leaves an entry younger than 10 s as it is, and
\* runs without effect when the key is absent.
C22_DeferredPurge ==
  /\ [](\A key \in DOMAIN recentJumps :
          [key |-> key, due |-> recentJumps[key] + PurgeDelayMs] \in timers)
  /\ [][\A tm \in timers :
          Fires(tm) =>
            IF LatestTimer(tm) THEN tm.key \notin DOMAIN recentJumps'
            ELSE IF tm.key \notin DOMAIN recentJumps
                      \/ now - lastRecord[tm.key] < PurgeDelayMs
              THEN recentJumps' = recentJumps
            ELSE tm.key \notin DOMAIN recentJumps']_vars

\* isRecentJump was never called; the entry of npm:microsoft/vscode was
\* removed by its timer 10 s after it was recorded, and the timer of an
\* earlier recordJump of github:microsoft/vscode has run and left the
\* newer entry in the ledger
C22_Witness ==
  \E gh \in {JumpKey("github", x_microsoft, x_vscode)},
     npm \in {JumpKey("npm", x_microsoft, x_vscode)} :
    /\ asked = NeverAsked
    /\ DOMAIN lastRecord = {gh, npm}
    /\ now = lastRecord[npm] + PurgeDelayMs
    /\ DOMAIN recentJumps = {gh}
    /\ recentJumps[gh] = lastRecord[gh]
    /\ timers = {[key |-> gh, due |-> lastRecord[gh] + PurgeDelayMs]}

\* ------------------------------------------------------------------------
\* Properties of the omnibox
\* ------------------------------------------------------------------------

\* the omnibox handler has run for the text of shape sh
Entered == call.fn = "omniboxEntered"

\* C23: for an omnibox input that is one token equal, whatever its case,
\* to a keyword of platform P, the enter handler opens https://<P.domain>/,
\* the home page of P itself, for every value the default platform can
\* take.
C23_KeywordOpensHome ==
  (Entered /\ call.shape \in KeywordShapes) =>
    \E P \in {findPlatformByKeyword(call.arg)} :
      /\ P # NullKey
      /\ call.res.url = t_https \o PLATFORMS[P].domain \o <<"/">>
      /\ call.res.platform = P

\* "ge", a keyword of gitee and the start of a keyword of rubygems, was
\* entered while the default platform is gitlab
C23_Witness ==
  /\ Entered
  /\ call.arg = <<"g","e">>
  /\ DEFAULT_PLATFORM = "gitlab"
  /\ call.res.kind = "home"

\* C24: an identifier containing "@" is accepted only for platforms whose
\* allowAt flag is true: the omnibox never opens a URL on a platform
\* without allowAt for an identifier that contains "@".
C24_AllowAtGate ==
  (Entered /\ "@" \in Range(call.shape.owner) /\ call.res.url # NullText)
    => PLATFORMS[call.res.platform].allowAt

\* ------------------------------------------------------------------------
\* Properties of the resolver's grammars
\* ------------------------------------------------------------------------

\* the longest owner the patterns are written for
OwnerMax == OwnerMiddleMax + 2

\* C25: every target returned by parseRepoInput or parseSearchQuery has
\* an owner of 1 to 39 characters and a repo of 1 to 100 characters,
\* whichever of the three grammars matched (the name of a package on a
\* singleName platform, which has no repo, left aside).
C25_LengthBounds ==
  (/\ call.fn \in {"parseRepoInput", "parseSearchQuery"}
   /\ call.res # NullTarget
   /\ ~PLATFORMS[call.res.platform].singleName)
    => /\ Len(call.res.owner) \in 1..OwnerMax
       /\ Len(call.res.repo) \in 1..RepoMax

\* ------------------------------------------------------------------------
\* Properties of the pending jump of the tabJump mode
\* ------------------------------------------------------------------------

\* the executeSearchJump messages sent and not yet handled
Messages == {p \in procs : p.kind = "message"}

\* C26: each pending jump stored under search_jump_<tabId> leads to at
\* most one executeSearchJump message, hence to at most one tab
\* navigation, also when several presses of the Tab key are handled
\* concurrently: no two messages are under way that carry the same stored
\* jump (the same tab, target and timestamp).
C26_ConsumedOnce ==
  \A p, q \in Messages : (p.tab = q.tab /\ p.data = q.data) => p = q

\* ------------------------------------------------------------------------
\* The way back to the search page
\* ------------------------------------------------------------------------

\* the age up to which a provenance record makes the hint appear, and the
\* time after which the hint hides itself
BackWindowMs == 5000
HintLifeMs == 10000

\* the navigation that loaded the page a tab shows
LastNav(tab) == navs[Max({i \in DOMAIN navs : navs[i].tab = tab})]

\* the script of the repository page: in autoJump mode it reads
\* repo_source_<tabId>, shows the hint with its button and Tab key for a
\* record of the last 5 s, and removes the record
backHintInit ==
  \E tab \in Tabs :
    /\ page[tab] = "other"
    /\ \A p \in procs : p.pc = "update" => p.nav.tab # tab
    /\ sync.searchRedirectMode = "autoJump"
    /\ LET sourceData == local.repo_source[tab]
       IN /\ sourceData # NoItem
          /\ page' = [page EXCEPT ![tab] =
                        IF now - sourceData.timestamp > BackWindowMs
                          THEN "other" ELSE "back"]
          /\ local' = [local EXCEPT !.repo_source[tab] = NoItem]
    /\ UNCHANGED <<DEFAULT_PLATFORM, guardVars, settingVars, procs, events,
                   historyVars>>

\* the button of the hint is clicked, or the Tab key pressed, before the
\* hint hides itself: window.location.href = sourceUrl, the URL of the
\* record written for the navigation that loaded the page; the browser
\* reports the navigation to the search listener
backToSearch ==
  /\ events < MaxEvents
  /\ procs = {}
  /\ \E tab \in Tabs, details \in AnySearchEvents :
       /\ page[tab] = "back"
       /\ now - LastNav(tab).at < HintLifeMs
       /\ details.tab = tab
       /\ Href(details.url) = LastNav(tab).source
       /\ AwaitsToggles("search", details, "none")
       /\ page' = [page EXCEPT ![tab] = "loading"]
       /\ call' = [fn |-> "back", tab |-> tab, at |-> now,
                   platform |-> LastNav(tab).platform,
                   owner |-> LastNav(tab).owner,
                   repo |-> LastNav(tab).repo,
                   redirectedAt |-> LastNav(tab).at]
  /\ events' = events + 1
  /\ UNCHANGED <<DEFAULT_PLATFORM, guardVars, settingVars, local, navs,
                 lastRecord, asked, built>>

BackNext ==
  \/ saveSearchRedirectMode
  \/ onBeforeNavigate_any
  \/ SearchResumes
  \/ TabsUpdate
  \/ backHintInit
  \/ backToSearch
  \/ TimerFires
  \/ Tick

SpecBack == SystemInit /\ [][BackNext]_vars

\* the navigation the step issues is one to the target the hint came with
BackAgain ==
  /\ Len(navs') > Len(navs)
  /\ navs'[Len(navs')].platform = call.platform
  /\ navs'[Len(navs')].owner = call.owner
  /\ navs'[Len(navs')].repo = call.repo

\* C27: after an autoJump redirect from a search page, returning to the
\* source search URL with the back-to-search hint (its button or its Tab
\* key), while the hint is still there, is never followed by a new
\* redirect to the same target.
C27_NoRedirectLoop ==
  [][(call.fn = "back" /\ call' = call) => ~BackAgain]_vars

\* ------------------------------------------------------------------------
\* Properties of the tabJump mode
\* ------------------------------------------------------------------------

\* the step ends the search handler p, which read the mode tabJump
EndsDeferred(p) ==
  /\ p.kind = "search" /\ p.pc = "toggles"
  /\ p \notin procs'
  /\ p.features.searchRedirectMode = "tabJump"

\* the step adds no record to the ledger of the guard and sets no timer
AddsNoRecord ==
  /\ timers' = timers
  /\ \A key \in DOMAIN recentJumps' :
       key \in DOMAIN recentJumps /\ recentJumps'[key] = recentJumps[key]

\* C28: in tabJump mode a search navigation that resolves to a target
\* issues no tab navigation and adds no guard record; it only stores the
\* pending jump under search_jump_<tabId>; the navigation to the target is
\* issued by a later executeSearchJump message, whose handler records the
\* jump before it dispatches.
C28_TabJumpDefers ==
  /\ [][\A p \in procs :
          EndsDeferred(p) =>
            /\ NoNavigation
            /\ AddsNoRecord
            /\ procs' = procs \ {p}
            /\ local'.repo_source = local.repo_source
            /\ \A tab \in Tabs \ {p.tab} :
                 local'.search_jump[tab] = local.search_jump[tab]]_vars
  /\ [](\A i \in DOMAIN navs :
          navs[i].by = "message" => navs[i].guard = <<"record">>)

\* in tabJump mode the search for microsoft/vscode was stored as pending,
\* the Tab key sent it, and the message handler has navigated to it: the
\* one navigation and the one record there are
C28_Witness ==
  /\ sync.searchRedirectMode = "tabJump"
  /\ procs = {}
  /\ Len(navs) = 1
  /\ navs[1].by = "message"
  /\ navs[1].owner = x_microsoft /\ navs[1].repo = x_vscode
  /\ DOMAIN recentJumps = {JumpKey("github", x_microsoft, x_vscode)}
  /\ local = EmptyLocal

\* C29: for every platform P of the registry and every valid owner, repo
\* (empty for singleName platforms) and path,
\* parseRepoInput(buildRepoUrl(P, owner, repo, path)) returns
\* {platform: P, owner, repo, path}.
C29_UrlRoundTrip ==
  call.fn = "parseBuiltUrl" =>
    call.res = Target(call.platform, call.owner, call.repo, call.path)

\* C30: for every query whose first and last tokens are not platform
\* keywords, or that has a single token, parseSearchQuery(q) returns
\* exactly parseRepoInput(q), including the platform that the domain of a
\* full URL designates.
C30_ResolversAgree ==
  (/\ call.fn = "parseSearchQuery"
   /\ call.shape.lead = <<>> /\ call.shape.trail = <<>>)
    => call.res = parseRepoInput(call.arg)

====
